---- MODULE Spec2Model ----
(***************************************************************************)
(* A model of the table layout engine vendored in bevane/repocheck        *)
(* (github.com/clinaresl/table): NewTable, AddRow, the rule insertions,   *)
(* multicells and the rendering pass of Table.String.                     *)
(*                                                                         *)
(* Strings are sequences of runes.  A rune is a short token; RuneSize     *)
(* gives the bytes it takes inside a string and RuneLen what              *)
(* utf8.RuneLen answers for the decoded rune, so that byte offsets are    *)
(* computed as the Go code computes them.  Go indices are 0-based and are *)
(* kept 0-based here; sequences are read through At(s, i) == s[i + 1].    *)
(***************************************************************************)
EXTENDS Integers, Sequences, FiniteSets, TLC

\* ---------------------------------------------------------------- runes

none == ""
horizontal_empty == <<>>
horizontal_blank == " "
horizontal_single == "h1"
horizontal_double == "h2"
horizontal_thick == "h3"
vertical_single == "v1"
vertical_double == "v2"
vertical_thick == "v3"

\* the escape byte that opens an ANSI colour sequence, and a newline
ESC == "ESC"
NL == "\n"
\* a byte that is no valid UTF-8 on its own (what is left of a rune that a byte
\* slice cut through); Go decodes it as U+FFFD with size 1
BAD == "bad"
\* U+3000, a three-byte space; U+00E9, a two-byte letter
WIDESPACE == "u3000"
EACUTE == "e9"

\* U+FFFD, what utf8.DecodeRuneInString answers for an empty string or an
\* invalid byte
REPL == "ufffd"

\* the box-drawing runes (U+250C to U+256C) that splitterUTF8 holds
boxDrawing ==
  {"u250c", "u250d", "u250e", "u250f", "u2510", "u2511", "u2512", "u2513", "u2514", "u2515",
   "u2516", "u2517", "u2518", "u2519", "u251a", "u251b", "u251c", "u251d", "u251e", "u251f",
   "u2520", "u2521", "u2522", "u2523", "u2524", "u2525", "u2526", "u2527", "u2528", "u2529",
   "u252a", "u252b", "u252c", "u252d", "u252f", "u2530", "u2531", "u2533", "u2534", "u2535",
   "u2536", "u2537", "u2538", "u2539", "u253a", "u253b", "u253c", "u253d", "u253e", "u253f",
   "u2540", "u2541", "u2542", "u2543", "u2544", "u2545", "u2546", "u2547", "u2548", "u2549",
   "u254a", "u254b", "u2552", "u2553", "u2554", "u2555", "u2556", "u2557", "u2558", "u2559",
   "u255a", "u255b", "u255c", "u255d", "u255e", "u255f", "u2560", "u2561", "u2562", "u2563",
   "u2564", "u2565", "u2566", "u2567", "u2568", "u2569", "u256a", "u256b", "u256c"}

Digits == {"0", "1", "2", "3", "4", "5", "6", "7", "8", "9"}

At(s, i) == s[i + 1]

\* the value v under the name F gives it: a result that is read more than once
With(v, F(_)) == F(v)

SubSeqFrom(s, i) == SubSeq(s, i + 1, Len(s))

SubSeqTo(s, i) == SubSeq(s, 1, i)

HasPrefix(s, pat) == Len(s) >= Len(pat) /\ SubSeq(s, 1, Len(pat)) = pat

\* strings.Index: the first index where pat occurs in s, or -1
Index(s, pat) ==
  LET found == {i \in 0..(Len(s) - Len(pat)) : SubSeq(s, i + 1, i + Len(pat)) = pat}
  IN IF found = {} THEN -1 ELSE CHOOSE i \in found : \A k \in found : i <= k

\* the bytes a rune takes in a string
RuneSize(r) ==
  IF r \in {horizontal_single, horizontal_double, horizontal_thick,
            vertical_single, vertical_double, vertical_thick, WIDESPACE, REPL}
       \cup boxDrawing
  THEN 3
  ELSE IF r = EACUTE THEN 2 ELSE 1

\* utf8.RuneLen of the rune that decoding yields (U+FFFD for an invalid byte)
RuneLen(r) == IF r = BAD THEN 3 ELSE RuneSize(r)

\* unicode.IsSpace
IsSpace(r) == r \in {" ", NL, "\t", WIDESPACE}

\* unicode.IsGraphic(r) && unicode.IsPrint(r)
IsPrintable(r) == r \notin {ESC, NL, "\t", WIDESPACE}

\* the bytes of the runes lo..hi of s, summed by halves
RECURSIVE ByteRange(_, _, _)
ByteRange(s, lo, hi) ==
  IF lo > hi THEN 0
  ELSE IF lo = hi THEN RuneSize(s[lo])
  ELSE ByteRange(s, lo, (lo + hi) \div 2) + ByteRange(s, (lo + hi) \div 2 + 1, hi)

\* len(s)
ByteLen(s) == ByteRange(s, 1, Len(s))

\* the byte offset of the k-th rune (0-based) of s
ByteOffset(s, k) == ByteRange(s, 1, k)

Repeat(r, n) == IF n <= 0 THEN <<>> ELSE [i \in 1..n |-> r]

\* s[from:to] on bytes: a rune wholly inside is kept, every byte of a rune cut by
\* the slice is left as an invalid byte
RECURSIVE ByteSliceFrom(_, _, _, _)
ByteSliceFrom(s, pos, from, to) ==
  IF s = <<>> THEN <<>>
  ELSE LET r == Head(s)
           e == pos + RuneSize(r)
           lo == IF from > pos THEN from ELSE pos
           hi == IF to < e THEN to ELSE e
           piece == IF pos >= from /\ e <= to THEN <<r>> ELSE Repeat(BAD, hi - lo)
       IN piece \o ByteSliceFrom(Tail(s), e, from, to)

ByteSlice(s, from, to) == ByteSliceFrom(s, 0, from, to)

\* ------------------------------------------------------------ helpers.go

min(n, m) == IF n > m THEN m ELSE n

\* max with the branches of its comparison exchanged
maxSwapped(n, m) == IF n > m THEN m ELSE n

max(n, m) == IF n > m THEN n ELSE m

\* Go's integer division truncates toward zero
GoDiv(a, b) ==
  IF (a >= 0) = (b > 0) THEN (IF a >= 0 THEN a ELSE -a) \div (IF b > 0 THEN b ELSE -b)
  ELSE -((IF a >= 0 THEN a ELSE -a) \div (IF b > 0 THEN b ELSE -b))

GoMod(a, b) == a - b * GoDiv(a, b)

\* ansiColorRegex = \033([\[;]\d+)+m matched at rune index i (0-based) of s: the
\* index after the match, or -1.  The pattern is deterministic: after a group's
\* digits only another group or the closing m can follow.
\* the index after the run of digits that starts at i
ansiDigits(s, i) ==
  CHOOSE e \in i..(IF i > Len(s) THEN i ELSE Len(s)) :
    /\ \A k \in i..(e - 1) : k < Len(s) /\ At(s, k) \in Digits
    /\ ~(e < Len(s) /\ At(s, e) \in Digits)

RECURSIVE ansiGroups(_, _)
ansiGroups(s, i) ==
  IF i + 1 < Len(s) /\ At(s, i) \in {"[", ";"} /\ At(s, i + 1) \in Digits
  THEN LET k == ansiDigits(s, i + 1)
       IN IF k < Len(s) /\ At(s, k) = "m" THEN k + 1 ELSE ansiGroups(s, k)
  ELSE -1

ansiColorRegex(s, i) ==
  IF i < Len(s) /\ At(s, i) = ESC THEN ansiGroups(s, i + 1) ELSE -1

\* the runes of s that a match of ansiColorRegex covers: a match starts at an
\* escape byte and holds no other, so that no two matches overlap
inAnsiCode(s, i) == \E e \in 0..i : At(s, e) = ESC /\ ansiColorRegex(s, e) > i

countPrintableRuneInString(s) ==
  Cardinality({i \in 0..(Len(s) - 1) : ~inAnsiCode(s, i) /\ IsPrintable(At(s, i))})

\* regexp.MustCompile(newlineRegex).Split(s, -1), cur being the line begun
RECURSIVE newlineSplit(_, _)
newlineSplit(s, cur) ==
  With(Index(s, <<NL>>), LAMBDA i :
    IF i = -1 THEN <<cur \o s>>
    ELSE <<cur \o SubSeqTo(s, i)>> \o newlineSplit(SubSeqFrom(s, i + 1), <<>>))

\* the rune decoded at byte offset b of s, whose first byte is at offset pos
\* (utf8.DecodeRuneInString(str[b:])): an offset inside a rune decodes as invalid
runeAtByte(s, pos, b) ==
  LET at == {k \in 0..(Len(s) - 1) : pos + ByteOffset(s, k) = b}
  IN IF at # {} THEN At(s, CHOOSE k \in at : TRUE)
     ELSE IF b < pos + ByteLen(s) THEN BAD
     ELSE none

\* one turn of the inner loop of splitParagraph on the k-th rune: whether the loop
\* ends with it, and the [end, nxt] it leaves.  late takes the width as reached
\* one rune late (nbrunes > width)
splitStep(str, width, k, nbrunes, end, nxt, late) ==
  With(<<At(str, k), ByteOffset(str, k), RuneLen(At(str, k)), ByteLen(str)>>,
    LAMBDA c :
      LET rune == c[1]
          pos == c[2]
          rl == c[3]
          n == c[4]
          sp == IsSpace(rune)
      IN With(<<IF sp THEN pos ELSE end, IF sp THEN rl ELSE nxt>>, LAMBDA e1 :
           IF sp /\ rune = NL
           THEN [stop |-> TRUE, panic |-> FALSE, end |-> e1[1], nxt |-> e1[2]]
           ELSE IF (IF late THEN nbrunes + 1 > width ELSE nbrunes + 1 >= width)
           THEN With(IF e1[1] = 0 THEN <<pos + rl, 0>> ELSE e1, LAMBDA e2 :
                  IF pos + rl > n
                  THEN [stop |-> TRUE, panic |-> TRUE, end |-> e2[1], nxt |-> e2[2]]
                  ELSE IF IsSpace(runeAtByte(str, 0, pos + rl))
                  THEN [stop |-> TRUE, panic |-> FALSE, end |-> pos + rl, nxt |-> rl]
                  ELSE [stop |-> TRUE, panic |-> FALSE, end |-> e2[1], nxt |-> e2[2]])
           ELSE IF pos + rl >= n
           THEN [stop |-> FALSE, panic |-> FALSE, end |-> n, nxt |-> 0]
           ELSE [stop |-> FALSE, panic |-> FALSE, end |-> e1[1], nxt |-> e1[2]]))

\* the inner loop of splitParagraph at its k-th rune: one turn of it, the loop
\* being over (stop) after the last rune
splitTurn(str, width, st, late) ==
  IF st.k >= Len(str) THEN [st EXCEPT !.stop = TRUE]
  ELSE With(splitStep(str, width, st.k, st.nbrunes, st.end, st.nxt, late), LAMBDA r :
         [k |-> st.k + 1, nbrunes |-> st.nbrunes + 1, end |-> r.end, nxt |-> r.nxt,
          stop |-> r.stop, panic |-> r.panic])

\* at most n turns of the loop from st on, taken by halves
RECURSIVE splitTurns(_, _, _, _, _)
splitTurns(str, width, st, n, late) ==
  IF n <= 1 THEN splitTurn(str, width, st, late)
  ELSE With(splitTurns(str, width, st, n \div 2, late), LAMBDA half :
         IF half.stop THEN half
         ELSE splitTurns(str, width, half, n - n \div 2, late))

\* splitScan that takes the width as reached one rune late
splitScanLate(str, width, k, nbrunes, end, nxt) ==
  With(splitTurns(str, width,
         [k |-> k, nbrunes |-> nbrunes, end |-> end, nxt |-> nxt,
          stop |-> FALSE, panic |-> FALSE],
         (IF Len(str) > k THEN Len(str) - k ELSE 0) + 1, TRUE),
    LAMBDA st : [panic |-> st.panic, end |-> st.end, nxt |-> st.nxt])

\* the inner loop of splitParagraph from the k-th rune on: the [end, nxt] it ends
\* with, or a panic when str[pos+RuneLen(rune):] is out of range
splitScan(str, width, k, nbrunes, end, nxt) ==
  With(splitTurns(str, width,
         [k |-> k, nbrunes |-> nbrunes, end |-> end, nxt |-> nxt,
          stop |-> FALSE, panic |-> FALSE],
         (IF Len(str) > k THEN Len(str) - k ELSE 0) + 1, FALSE),
    LAMBDA st : [panic |-> st.panic, end |-> st.end, nxt |-> st.nxt])

\* splitParagraph: the lines, or a panic on a slice out of range
RECURSIVE splitParagraph(_, _)
splitParagraph(str, width) ==
  IF str = <<>> THEN [panic |-> FALSE, lines |-> <<>>]
  ELSE With(<<splitScan(str, width, 0, 0, 0, 0), ByteLen(str)>>, LAMBDA c :
         LET sc == c[1]
             n == c[2]
         IN IF sc.panic \/ sc.end > n \/ sc.end + sc.nxt > n
            THEN [panic |-> TRUE, lines |-> <<>>]
            ELSE With(splitParagraph(ByteSlice(str, sc.end + sc.nxt, n), width),
                   LAMBDA rest :
                     [panic |-> rest.panic,
                      lines |-> <<ByteSlice(str, 0, sc.end)>> \o rest.lines]))

\* ----------------------------------------------- defs.go, NewTable parsing

AlignLetters == {"c", "l", "r", "C", "L", "R", "p"}

ParagraphLetters == {"p", "C", "L", "R"}

\* strings.ReplaceAll for a non-empty pattern: one occurrence after the other
RECURSIVE ReplaceAll(_, _, _)
ReplaceAll(s, pat, rep) ==
  With(Index(s, pat), LAMBDA i :
    IF i = -1 THEN s
    ELSE SubSeqTo(s, i) \o rep \o ReplaceAll(SubSeqFrom(s, i + Len(pat)), pat, rep))

separatorToUTF8(input) ==
  ReplaceAll(ReplaceAll(ReplaceAll(input,
    <<"|", "|", "|">>, <<vertical_thick>>),
    <<"|", "|">>, <<vertical_double>>),
    <<"|">>, <<vertical_single>>)

DigitValue(d) ==
  CASE d = "0" -> 0 [] d = "1" -> 1 [] d = "2" -> 2 [] d = "3" -> 3 [] d = "4" -> 4
    [] d = "5" -> 5 [] d = "6" -> 6 [] d = "7" -> 7 [] d = "8" -> 8 [] d = "9" -> 9

\* strconv.Atoi on a run of decimal digits
RECURSIVE Atoi(_)
Atoi(ds) == IF ds = <<>> THEN 0 ELSE 10 * Atoi(SubSeqTo(ds, Len(ds) - 1)) + DigitValue(ds[Len(ds)])

\* the first index from i on that holds an alignment letter, or -1
firstAlign(s, i) ==
  LET found == {k \in i..(Len(s) - 1) : At(s, k) \in AlignLetters}
  IN IF found = {} THEN -1 ELSE CHOOSE k \in found : \A m \in found : k <= m

\* the alignment token (c|l|r|C\{\d+\}|L\{\d+\}|R\{\d+\}|p\{\d+\}) matched at index
\* k of s: the index after it, or -1
alignToken(s, k) ==
  IF k < 0 \/ k >= Len(s) THEN -1
  ELSE IF At(s, k) \in {"c", "l", "r"} THEN k + 1
  ELSE IF At(s, k) \in ParagraphLetters /\ k + 2 < Len(s) /\ At(s, k + 1) = "{"
          /\ At(s, k + 2) \in Digits
  THEN LET e == ansiDigits(s, k + 2)
       IN IF e < Len(s) /\ At(s, e) = "}" THEN e + 1 ELSE -1
  ELSE -1

\* colSpecRegex = ^[^clrCLRp]*(c|l|r|C\{\d+\}|L\{\d+\}|R\{\d+\}|p\{\d+\}) at the
\* start of s: the index after the match, or -1
colSpecRegex(s) == alignToken(s, firstAlign(s, 0))

\* colSpecRegexAll matches as soon as one column does: it is not anchored at the end
colSpecRegexAll(s) == colSpecRegex(s) # -1

\* rowSpecRegex = ^[^cbt]*(c|b|t)
RECURSIVE rowSpecRegex(_, _)
rowSpecRegex(s, i) ==
  IF i >= Len(s) THEN -1 ELSE IF At(s, i) \in {"c", "b", "t"} THEN i + 1 ELSE rowSpecRegex(s, i + 1)

style(alignment, arg) == [alignment |-> alignment, arg |-> arg]

\* newStyle on an alignment token
newStyle(spec) ==
  IF Len(spec) = 1 THEN [err |-> FALSE, style |-> style(spec[1], 0)]
  ELSE LET arg == Atoi(SubSeq(spec, 3, Len(spec) - 1))
       IN IF arg <= 0 THEN [err |-> TRUE, style |-> style(none, 0)]
          ELSE [err |-> FALSE, style |-> style(spec[1], arg)]

\* newColumn on one matched column specification
newColumn(spec) ==
  With(firstAlign(spec, 0), LAMBDA k :
    With(newStyle(SubSeqFrom(spec, k)), LAMBDA st :
      [err |-> st.err,
       column |-> [sep |-> SubSeqTo(spec, k), width |-> 0,
                   hformat |-> st.style, vformat |-> style("t", 0)]]))

RECURSIVE getColumns(_)
getColumns(colspec) ==
  With(colSpecRegex(colspec), LAMBDA e :
    IF e = -1
    THEN [err |-> FALSE,
          columns |-> IF colspec # <<>>
                      THEN <<[sep |-> colspec, width |-> 0,
                              hformat |-> style(none, 0), vformat |-> style(none, 0)]>>
                      ELSE <<>>]
    ELSE With(<<newColumn(SubSeqTo(colspec, e)), getColumns(SubSeqFrom(colspec, e))>>,
           LAMBDA c :
             LET nxtcol == c[1]
                 rest == c[2]
             IN IF nxtcol.err \/ rest.err THEN [err |-> TRUE, columns |-> <<>>]
                ELSE [err |-> FALSE, columns |-> <<nxtcol.column>> \o rest.columns]))

RECURSIVE getVerticalStyles(_)
getVerticalStyles(rowspec) ==
  IF rowspec = <<>> THEN [err |-> FALSE, styles |-> <<>>]
  ELSE IF Head(rowspec) \notin {"t", "b", "c"} THEN [err |-> TRUE, styles |-> <<>>]
  ELSE LET rest == getVerticalStyles(Tail(rowspec))
       IN [err |-> rest.err, styles |-> <<style(Head(rowspec), 0)>> \o rest.styles]

emptyTable == [columns |-> <<>>, rows |-> <<>>, cells |-> <<>>]

\* NewTable(colspec, rowspec): rowspec is <<>> when not given
NewTable(colspec0, rowspec) ==
  IF ~colSpecRegexAll(colspec0) THEN [err |-> TRUE, table |-> emptyTable]
  ELSE With(<<getColumns(separatorToUTF8(colspec0)), getVerticalStyles(rowspec)>>,
         LAMBDA c :
           LET cols == c[1]
               vertFmt == c[2]
           IN IF cols.err \/ vertFmt.err \/ Len(vertFmt.styles) > Len(cols.columns)
              THEN [err |-> TRUE, table |-> emptyTable]
              ELSE [err |-> FALSE,
                    table |-> [columns |->
                                 [j \in 1..Len(cols.columns) |->
                                    [sep |-> separatorToUTF8(cols.columns[j].sep),
                                     width |-> 0,
                                     hformat |-> cols.columns[j].hformat,
                                     vformat |-> IF j <= Len(vertFmt.styles)
                                                 THEN vertFmt.styles[j]
                                                 ELSE cols.columns[j].vformat]],
                               rows |-> <<>>, cells |-> <<>>]])

\* stripLastSeparator: the matched columns (rows) and the separator left over
RECURSIVE stripLastColSeparator(_)
stripLastColSeparator(colspec) ==
  With(colSpecRegex(colspec), LAMBDA e :
    IF e = -1 THEN [spec |-> <<>>, lastsep |-> separatorToUTF8(colspec)]
    ELSE With(stripLastColSeparator(SubSeqFrom(colspec, e)), LAMBDA rest :
           [spec |-> SubSeqTo(colspec, e) \o rest.spec, lastsep |-> rest.lastsep]))

RECURSIVE stripLastRowSeparator(_)
stripLastRowSeparator(rowspec) ==
  With(rowSpecRegex(rowspec, 0), LAMBDA e :
    IF e = -1 THEN [spec |-> <<>>, lastsep |-> separatorToUTF8(rowspec)]
    ELSE With(stripLastRowSeparator(SubSeqFrom(rowspec, e)), LAMBDA rest :
           [spec |-> SubSeqTo(rowspec, e) \o rest.spec, lastsep |-> rest.lastsep]))

\* GetNbColumns counting the separator-only last column as well
GetNbColumnsAll(t) == Len(t.columns)

\* Table.GetNbColumns: a last column with no alignment holds no data
GetNbColumns(t) ==
  IF Len(t.columns) > 0 /\ t.columns[Len(t.columns)].hformat.alignment = none
  THEN Len(t.columns) - 1
  ELSE Len(t.columns)

\* Table.GetNbRows
GetNbRows(t) == Len(t.cells)

\* ------------------------------------------------------ cells (formatters)

\* an empty slot of the grid: a nil formatter
nilCell == [kind |-> "nil"]

content(str) == [kind |-> "content", str |-> str]

hrule(str) == [kind |-> "hrule", str |-> str]

multicolumn_t == 0
multirow_t == 1
multicell_t == 2

Col(t, j) == t.columns[j + 1]

Row(t, i) == t.rows[i + 1]

Cell(t, i, j) == t.cells[i + 1][j + 1]

InRange(i, n) == i >= 0 /\ i < n

isMulticell(t, i, j) ==
  InRange(i, Len(t.cells)) /\ InRange(j, Len(t.cells[i + 1])) /\ Cell(t, i, j).kind = "multicell"

isVerticalSeparator(r) == r \in {vertical_single, vertical_double, vertical_thick}

isParagraph(col) == col.hformat.alignment \in ParagraphLetters

\* unicode.ToLower on the alignment letters
ToLower(a) == CASE a = "C" -> "c" [] a = "L" -> "l" [] a = "R" -> "r" [] OTHER -> a

\* content.Process with the odd line of a centred content put before it
contentProcessExtraFirst(c, t, irow, jcol) ==
  IF ~InRange(jcol, Len(t.columns)) THEN [panic |-> TRUE, lines |-> <<>>]
  ELSE IF jcol = Len(t.columns) - 1 /\ Col(t, jcol).hformat.alignment = none
  THEN IF ~InRange(irow, Len(t.rows)) THEN [panic |-> TRUE, lines |-> <<>>]
       ELSE [panic |-> FALSE,
             lines |-> [iline \in 1..max(1, Row(t, irow).height) |-> horizontal_empty]]
  ELSE With(<<Col(t, jcol),
              IF irow < Len(t.rows) /\ irow >= 0 THEN Row(t, irow).height ELSE 0>>,
         LAMBDA c0 :
           LET col == c0[1]
               nbrows == c0[2]
           IN With(IF isParagraph(col) THEN splitParagraph(c, col.hformat.arg)
                   ELSE [panic |-> FALSE, lines |-> newlineSplit(c, <<>>)],
                LAMBDA sp :
                  With(<<nbrows - Len(sp.lines), ToLower(col.vformat.alignment)>>,
                    LAMBDA dv :
                      LET result == sp.lines
                          d == dv[1]
                          v == dv[2]
                          prefix == IF v = "b" THEN d ELSE IF v = "c" THEN GoDiv(d, 2) + GoMod(d, 2) ELSE 0
                          suffix == IF v = "c" THEN GoDiv(d, 2)
                                    ELSE IF v = "t" THEN d ELSE 0
                      IN IF irow < 0 \/ sp.panic THEN [panic |-> TRUE, lines |-> <<>>]
                         ELSE IF nbrows > Len(result)
                         THEN [panic |-> FALSE,
                               lines |-> [k \in 1..prefix |-> horizontal_empty] \o result
                                         \o [k \in 1..suffix |-> horizontal_empty]]
                         ELSE [panic |-> FALSE, lines |-> result])))

\* content.Process: the physical lines of a content, or a panic (an index out of
\* range, or the one splitParagraph raises)
contentProcess(c, t, irow, jcol) ==
  IF ~InRange(jcol, Len(t.columns)) THEN [panic |-> TRUE, lines |-> <<>>]
  ELSE IF jcol = Len(t.columns) - 1 /\ Col(t, jcol).hformat.alignment = none
  THEN IF ~InRange(irow, Len(t.rows)) THEN [panic |-> TRUE, lines |-> <<>>]
       ELSE [panic |-> FALSE,
             lines |-> [iline \in 1..max(1, Row(t, irow).height) |-> horizontal_empty]]
  ELSE With(<<Col(t, jcol),
              IF irow < Len(t.rows) /\ irow >= 0 THEN Row(t, irow).height ELSE 0>>,
         LAMBDA c0 :
           LET col == c0[1]
               nbrows == c0[2]
           IN With(IF isParagraph(col) THEN splitParagraph(c, col.hformat.arg)
                   ELSE [panic |-> FALSE, lines |-> newlineSplit(c, <<>>)],
                LAMBDA sp :
                  With(<<nbrows - Len(sp.lines), ToLower(col.vformat.alignment)>>,
                    LAMBDA dv :
                      LET result == sp.lines
                          d == dv[1]
                          v == dv[2]
                          prefix == IF v = "b" THEN d ELSE IF v = "c" THEN GoDiv(d, 2) ELSE 0
                          suffix == IF v = "c" THEN GoDiv(d, 2) + GoMod(d, 2)
                                    ELSE IF v = "t" THEN d ELSE 0
                      IN IF irow < 0 \/ sp.panic THEN [panic |-> TRUE, lines |-> <<>>]
                         ELSE IF nbrows > Len(result)
                         THEN [panic |-> FALSE,
                               lines |-> [k \in 1..prefix |-> horizontal_empty] \o result
                                         \o [k \in 1..suffix |-> horizontal_empty]]
                         ELSE [panic |-> FALSE, lines |-> result])))

\* justifyLine: the blanks before and after a line; strings.Repeat panics on a
\* negative count
justifyLine(line, alignment, width) ==
  With(<<width - countPrintableRuneInString(line), ToLower(alignment)>>, LAMBDA c :
  LET d == c[1]
      a == c[2]
      np == IF a = "c" THEN GoDiv(d, 2) ELSE IF a = "r" THEN d ELSE 0
      ns == IF a = "l" \/ alignment = "p" THEN d
            ELSE IF a = "c" THEN GoDiv(d, 2) ELSE 0
      nodd == IF a = "c" /\ ~(a = "l" \/ alignment = "p") THEN GoMod(d, 2) ELSE 0
  IN [panic |-> np < 0 \/ ns < 0 \/ nodd < 0,
      prefix |-> Repeat(horizontal_blank, np),
      suffix |-> Repeat(horizontal_blank, ns) \o Repeat(" ", nodd)])

\* content.Format on one physical line
contentFormat(line, t, irow, jcol) ==
  IF ~InRange(jcol, Len(t.columns)) THEN [panic |-> TRUE, str |-> <<>>]
  ELSE With(justifyLine(line, Col(t, jcol).hformat.alignment, Col(t, jcol).width),
         LAMBDA js :
           [panic |-> js.panic, str |-> Col(t, jcol).sep \o js.prefix \o line \o js.suffix])

\* the loop of hrule.Process over the runes of the separator, from rune k on
RECURSIVE hruleSplitters(_, _, _, _, _, _)
hruleSplitters(sep, t, irow, jcol, k, offset) ==
  IF k >= Len(sep) THEN [panic |-> FALSE, str |-> <<>>]
  ELSE With(ansiColorRegex(sep, k), LAMBDA e :
    IF e # -1
    THEN With(hruleSplitters(sep, t, irow, jcol, e, offset), LAMBDA rest :
           [panic |-> rest.panic, str |-> SubSeq(sep, k + 1, e) \o rest.str])
    ELSE With(IF isVerticalSeparator(At(sep, k)) THEN 0 ELSE offset, LAMBDA off :
      With(InRange(irow, Len(t.cells)) /\ InRange(jcol + off, Len(t.cells[irow + 1]))
             /\ Cell(t, irow, jcol + off).kind = "hrule",
        LAMBDA ok :
          LET irune == At(sep, k)
              copy == (off = -1 /\ jcol = 0) \/ (off = 0 /\ jcol = Len(t.columns) - 1)
              brk == IF ~ok THEN none
                     ELSE IF Cell(t, irow, jcol + off).str = <<>> THEN REPL
                     ELSE Head(Cell(t, irow, jcol + off).str)
          IN IF ~copy /\ ~ok THEN [panic |-> TRUE, str |-> <<>>]
             ELSE With(hruleSplitters(sep, t, irow, jcol, k + 1, off), LAMBDA rest :
                    [panic |-> rest.panic,
                     str |-> <<IF copy THEN irune ELSE brk>> \o rest.str]))))

\* hrule.Process: one line, the splitters of the separator of the column
hruleProcess(h, t, irow, jcol) ==
  IF ~InRange(jcol, Len(t.columns)) THEN [panic |-> TRUE, lines |-> <<>>]
  ELSE With(hruleSplitters(Col(t, jcol).sep, t, irow, jcol, 0, -1), LAMBDA sp :
         [panic |-> sp.panic, lines |-> <<sp.str>>])

\* strings.Repeat of a string
RECURSIVE RepeatStr(_, _)
RepeatStr(s, n) == IF n <= 0 THEN <<>> ELSE s \o RepeatStr(s, n - 1)

\* hrule.Format: the process is ended (log.Fatalf) when the cell is no rule
hruleFormat(line, t, irow, jcol) ==
  IF ~(InRange(irow, Len(t.cells)) /\ InRange(jcol, Len(t.cells[irow + 1]))
       /\ InRange(jcol, Len(t.columns)))
  THEN [panic |-> TRUE, str |-> <<>>]
  ELSE IF Cell(t, irow, jcol).kind # "hrule" THEN [panic |-> TRUE, str |-> <<>>]
  ELSE [panic |-> Col(t, jcol).width < 0,
        str |-> line \o RepeatStr(Cell(t, irow, jcol).str, Col(t, jcol).width)]

\* getPreviousHorizontalMerger: the multicell of row i that ends right at column j.
\* A multicell of no column keeps the loop where it is: reported as a panic.
RECURSIVE getPreviousHorizontalMerger(_, _, _, _)
getPreviousHorizontalMerger(t, i, j, idx) ==
  IF ~(idx < j /\ idx < Len(t.cells[i + 1])) THEN [panic |-> FALSE, found |-> FALSE, cell |-> nilCell]
  ELSE IF idx < 0 THEN [panic |-> TRUE, found |-> FALSE, cell |-> nilCell]
  ELSE LET cell == Cell(t, i, idx)
       IN IF cell.kind = "multicell"
          THEN IF cell.jinit + cell.nbcolumns = j
               THEN [panic |-> FALSE, found |-> TRUE, cell |-> cell]
               ELSE IF cell.nbcolumns = 0
               THEN [panic |-> TRUE, found |-> FALSE, cell |-> nilCell]
               ELSE getPreviousHorizontalMerger(t, i, j, idx + cell.nbcolumns)
          ELSE getPreviousHorizontalMerger(t, i, j, idx + 1)

\* ------------------------------------------------- width and height passes

\* splitterUTF8[west][east][north][south]: the rune that joins the four; the
\* combinations the map leaves out are left out here
splitterUTF8 ==
  none :> (
     none :> (
        none :> (none :> none)
        @@ vertical_single :> (vertical_single :> vertical_single @@ vertical_double :> none @@ vertical_thick :> none)
        @@ vertical_double :> (vertical_single :> none @@ vertical_double :> vertical_double @@ vertical_thick :> none)
        @@ vertical_thick :> (vertical_single :> none @@ vertical_double :> none @@ vertical_thick :> vertical_thick))
     @@
     horizontal_single :> (
        none :> (none :> none @@ vertical_single :> "u250c" @@ vertical_double :> "u2553" @@ vertical_thick :> "u250e")
        @@ vertical_single :> (none :> "u2514" @@ vertical_single :> "u251c" @@ vertical_double :> "u251f" @@ vertical_thick :> "u251f")
        @@ vertical_double :> (none :> "u2559" @@ vertical_single :> "u251e" @@ vertical_double :> "u255f" @@ vertical_thick :> "u2520")
        @@ vertical_thick :> (none :> "u2516" @@ vertical_single :> "u251e" @@ vertical_double :> "u2520" @@ vertical_thick :> "u2520"))
     @@
     horizontal_double :> (
        none :> (none :> none @@ vertical_single :> "u2552" @@ vertical_double :> "u2554" @@ vertical_thick :> "u250f")
        @@ vertical_single :> (none :> "u2558" @@ vertical_single :> "u255e" @@ vertical_double :> "u2522" @@ vertical_thick :> "u2522")
        @@ vertical_double :> (none :> "u255a" @@ vertical_single :> "u2521" @@ vertical_double :> "u2560" @@ vertical_thick :> "u2523")
        @@ vertical_thick :> (none :> "u2517" @@ vertical_single :> "u2521" @@ vertical_double :> "u2523" @@ vertical_thick :> "u2523"))
     @@
     horizontal_thick :> (
        none :> (none :> none @@ vertical_single :> "u250d" @@ vertical_double :> "u250f" @@ vertical_thick :> "u250f")
        @@ vertical_single :> (none :> "u2515" @@ vertical_single :> "u251d" @@ vertical_double :> "u2522" @@ vertical_thick :> "u2522")
        @@ vertical_double :> (none :> "u2517" @@ vertical_single :> "u2521" @@ vertical_double :> "u2523" @@ vertical_thick :> "u2523")
        @@ vertical_thick :> (none :> "u2517" @@ vertical_single :> "u2521" @@ vertical_double :> "u2523" @@ vertical_thick :> "u2523")))
  @@
  horizontal_single :> (
     none :> (
        none :> (none :> none @@ vertical_single :> "u2510" @@ vertical_double :> "u2556" @@ vertical_thick :> "u2512")
        @@ vertical_single :> (none :> "u2518" @@ vertical_single :> "u2524" @@ vertical_double :> "u2527" @@ vertical_thick :> "u2527")
        @@ vertical_double :> (none :> "u255c" @@ vertical_single :> "u2526" @@ vertical_double :> "u2562" @@ vertical_thick :> "u2528")
        @@ vertical_thick :> (none :> "u251a" @@ vertical_single :> "u2526" @@ vertical_double :> "u2528" @@ vertical_thick :> "u2528"))
     @@
     horizontal_single :> (
        none :> (none :> none @@ vertical_single :> "u252c" @@ vertical_double :> "u2565" @@ vertical_thick :> "u2530")
        @@ vertical_single :> (none :> "u2534" @@ vertical_single :> "u253c" @@ vertical_double :> "u2541" @@ vertical_thick :> "u2541")
        @@ vertical_double :> (none :> "u2568" @@ vertical_single :> "u2540" @@ vertical_double :> "u256b" @@ vertical_thick :> "u2542")
        @@ vertical_thick :> (none :> "u2538" @@ vertical_single :> "u2540" @@ vertical_double :> "u2542" @@ vertical_thick :> "u2542"))
     @@
     horizontal_double :> (
        none :> (none :> none @@ vertical_single :> "u253c" @@ vertical_double :> "u2541" @@ vertical_thick :> "u2541")
        @@ vertical_single :> (none :> "u2536" @@ vertical_single :> "u253e" @@ vertical_double :> "u2546" @@ vertical_thick :> "u2546")
        @@ vertical_double :> (none :> "u253a" @@ vertical_single :> "u2544" @@ vertical_double :> "u254a" @@ vertical_thick :> "u254a")
        @@ vertical_thick :> (none :> "u253a" @@ vertical_single :> "u2544" @@ vertical_double :> "u254a" @@ vertical_thick :> "u254a"))
     @@
     horizontal_thick :> (
        none :> (none :> none @@ vertical_single :> "u253c" @@ vertical_double :> "u2541" @@ vertical_thick :> "u2541")
        @@ vertical_single :> (none :> "u2536" @@ vertical_single :> "u253e" @@ vertical_double :> "u2546" @@ vertical_thick :> "u2546")
        @@ vertical_double :> (none :> "u2536" @@ vertical_single :> "u2544" @@ vertical_double :> "u254a" @@ vertical_thick :> "u254a")
        @@ vertical_thick :> (none :> "u253a" @@ vertical_single :> "u2544" @@ vertical_double :> "u254a" @@ vertical_thick :> "u254a")))
  @@
  horizontal_double :> (
     none :> (
        none :> (none :> none @@ vertical_single :> "u2555" @@ vertical_double :> "u2557" @@ vertical_thick :> "u2513")
        @@ vertical_single :> (none :> "u255b" @@ vertical_single :> "u2561" @@ vertical_double :> "u252a" @@ vertical_thick :> "u252a")
        @@ vertical_double :> (none :> "u255d" @@ vertical_single :> "u2529" @@ vertical_double :> "u2563" @@ vertical_thick :> "u252b")
        @@ vertical_thick :> (none :> "u251b" @@ vertical_single :> "u2529" @@ vertical_double :> "u252a" @@ vertical_thick :> "u252b"))
     @@
     horizontal_single :> (
        none :> (none :> none @@ vertical_single :> "u252d" @@ vertical_double :> "u2531" @@ vertical_thick :> "u2531")
        @@ vertical_single :> (none :> "u2535" @@ vertical_single :> "u253d" @@ vertical_double :> "u2545" @@ vertical_thick :> "u2545")
        @@ vertical_double :> (none :> "u2539" @@ vertical_single :> "u2543" @@ vertical_double :> "u2549" @@ vertical_thick :> "u2549")
        @@ vertical_thick :> (none :> "u2539" @@ vertical_single :> "u2543" @@ vertical_double :> "u2549" @@ vertical_thick :> "u2549"))
     @@
     horizontal_double :> (
        none :> (none :> none @@ vertical_single :> "u2564" @@ vertical_double :> "u2566" @@ vertical_thick :> "u2533")
        @@ vertical_single :> (none :> "u2567" @@ vertical_single :> "u256a" @@ vertical_double :> "u2548" @@ vertical_thick :> "u2548")
        @@ vertical_double :> (none :> "u2569" @@ vertical_single :> "u2547" @@ vertical_double :> "u256c" @@ vertical_thick :> "u254b")
        @@ vertical_thick :> (none :> "u253b" @@ vertical_single :> "u2547" @@ vertical_double :> "u254b" @@ vertical_thick :> "u254b"))
     @@
     horizontal_thick :> (
        none :> (none :> none @@ vertical_single :> "u252f" @@ vertical_double :> "u2533" @@ vertical_thick :> "u2533")
        @@ vertical_single :> (none :> "u2537" @@ vertical_single :> "u253f" @@ vertical_double :> "u2548" @@ vertical_thick :> "u2548")
        @@ vertical_double :> (none :> "u253b" @@ vertical_single :> "u2547" @@ vertical_double :> "u254b" @@ vertical_thick :> "u254b")
        @@ vertical_thick :> (none :> "u253b" @@ vertical_single :> "u2547" @@ vertical_double :> "u254b" @@ vertical_thick :> "u254b")))
  @@
  horizontal_thick :> (
     none :> (
        none :> (none :> none @@ vertical_single :> "u2511" @@ vertical_double :> "u2513" @@ vertical_thick :> "u2513")
        @@ vertical_single :> (none :> "u2519" @@ vertical_single :> "u2525" @@ vertical_double :> "u252a" @@ vertical_thick :> "u252a")
        @@ vertical_double :> (none :> "u251b" @@ vertical_single :> "u2529" @@ vertical_double :> "u252b" @@ vertical_thick :> "u252b")
        @@ vertical_thick :> (none :> "u251b" @@ vertical_single :> "u2529" @@ vertical_double :> "u252b" @@ vertical_thick :> "u252b"))
     @@
     horizontal_single :> (
        none :> (none :> none @@ vertical_single :> "u252d" @@ vertical_double :> "u2531" @@ vertical_thick :> "u2531")
        @@ vertical_single :> (none :> "u2535" @@ vertical_single :> "u253d" @@ vertical_double :> "u2545" @@ vertical_thick :> "u2545")
        @@ vertical_double :> (none :> "u2539" @@ vertical_single :> "u2543" @@ vertical_double :> "u2549" @@ vertical_thick :> "u2549")
        @@ vertical_thick :> (none :> "u2539" @@ vertical_single :> "u2543" @@ vertical_double :> "u2549" @@ vertical_thick :> "u2549"))
     @@
     horizontal_double :> (
        none :> (none :> none @@ vertical_single :> "u252f" @@ vertical_double :> "u2533" @@ vertical_thick :> "u2533")
        @@ vertical_single :> (none :> "u2537" @@ vertical_single :> "u253f" @@ vertical_double :> "u2548" @@ vertical_thick :> "u2548")
        @@ vertical_double :> (none :> "u253b" @@ vertical_single :> "u2547" @@ vertical_double :> "u254b" @@ vertical_thick :> "u254b")
        @@ vertical_thick :> (none :> "u253b" @@ vertical_single :> "u2547" @@ vertical_double :> "u254b" @@ vertical_thick :> "u254b"))
     @@
     horizontal_thick :> (
        none :> (none :> horizontal_thick @@ vertical_single :> "u252f" @@ vertical_double :> "u2533" @@ vertical_thick :> "u2533")
        @@ vertical_single :> (none :> "u2537" @@ vertical_single :> "u253f" @@ vertical_double :> "u2548" @@ vertical_thick :> "u2548")
        @@ vertical_double :> (none :> "u253b" @@ vertical_single :> "u2547" @@ vertical_double :> "u254b" @@ vertical_thick :> "u254b")
        @@ vertical_thick :> (none :> "u253b" @@ vertical_single :> "u2547" @@ vertical_double :> "u254b" @@ vertical_thick :> "u254b")))

\* getSingleSplitter: a rune the map does not hold at its level is taken as none;
\* a combination the map leaves out yields the zero rune, none
getSingleSplitter(west, east, north, south) ==
  With(splitterUTF8, LAMBDA m :
    With(IF west \in DOMAIN m THEN m[west] ELSE m[none], LAMBDA mw :
      With(IF east \in DOMAIN mw THEN mw[east] ELSE mw[none], LAMBDA me :
        With(IF north \in DOMAIN me THEN me[north] ELSE me[none], LAMBDA mn :
          IF south \in DOMAIN mn THEN mn[south]
          ELSE IF none \in DOMAIN mn THEN mn[none] ELSE none))))

\* the rune utf8.DecodeRuneInString yields for a rune of the string
decoded(r) == IF r = BAD THEN REPL ELSE r

\* the loop of logicalToPhysical from rune k (byte pi), idx logical runes passed
RECURSIVE logicalToPhysicalFrom(_, _, _, _, _)
logicalToPhysicalFrom(s, li, k, pi, idx) ==
  IF k < Len(s) /\ idx <= li
  THEN With(ansiColorRegex(s, k), LAMBDA e :
         IF e # -1 THEN logicalToPhysicalFrom(s, li, e, pi + (e - k), idx)
         ELSE IF idx = li THEN [found |-> TRUE, pi |-> pi]
         ELSE logicalToPhysicalFrom(s, li, k + 1, pi + RuneSize(At(s, k)), idx + 1))
  ELSE [found |-> FALSE, pi |-> pi]

\* the byte offset of the li-th rune that is no colour code, and the string,
\* which force extends with blanks up to that rune when it has none
logicalToPhysical(s, li, force) ==
  With(logicalToPhysicalFrom(s, li, 0, 0, 0), LAMBDA f :
    IF f.found THEN [pi |-> f.pi, sout |-> s]
    ELSE IF force /\ li >= 0
    THEN With(1 + li - countPrintableRuneInString(s), LAMBDA diff :
           [pi |-> f.pi + diff - 1, sout |-> s \o Repeat(horizontal_blank, diff)])
    ELSE [pi |-> -1, sout |-> s])

\* the i-th rune that is no colour code, from rune k on with li of them passed;
\* rune(0), which is none, when there is no such rune
RECURSIVE getRuneFrom(_, _, _, _)
getRuneFrom(s, i, k, li) ==
  IF k >= Len(s) THEN none
  ELSE With(ansiColorRegex(s, k), LAMBDA e :
         IF e # -1 THEN getRuneFrom(s, i, e, li)
         ELSE IF li = i THEN decoded(At(s, k))
         ELSE getRuneFrom(s, i, k + 1, li + 1))

getRune(s, i) == getRuneFrom(s, i, 0, 0)

\* the runes of s written again, r in place of the one that starts at byte i
RECURSIVE insertRuneFrom(_, _, _, _)
insertRuneFrom(s, idx, i, r) ==
  IF s = <<>> THEN <<>>
  ELSE <<IF idx = i THEN r ELSE decoded(Head(s))>>
       \o insertRuneFrom(Tail(s), idx + RuneSize(Head(s)), i, r)

insertRune(s, i, r) == IF i < 0 \/ i >= ByteLen(s) THEN s ELSE insertRuneFrom(s, 0, i, r)

\* the junction glyph for line i at byte jp, the jl-th rune, put in when the map
\* has one for the four runes around it
addSplitter(tab, i, jp, jl) ==
  With(getSingleSplitter(
         IF jl > 0 THEN getRune(At(tab, i), jl - 1) ELSE none,
         IF jl < countPrintableRuneInString(At(tab, i)) - 1
         THEN getRune(At(tab, i), jl + 1) ELSE none,
         IF i > 0 THEN getRune(At(tab, i - 1), jl) ELSE none,
         IF i < Len(tab) - 1 THEN getRune(At(tab, i + 1), jl) ELSE none),
    LAMBDA splitter :
      IF splitter # none THEN [tab EXCEPT ![i + 1] = insertRune(@, jp, splitter)]
      ELSE tab)

\* the inner loop of addSplitters from rune k (the j-th that is no colour code)
\* of s, the copy of line i taken when its turn came: at a vertical separator
\* the lines above and below get a junction glyph in that column
RECURSIVE addSplittersLine(_, _, _, _, _)
addSplittersLine(tab, i, s, k, j) ==
  LET at(tb, ii) == With(logicalToPhysical(At(tb, ii), j, TRUE), LAMBDA p :
                      addSplitter([tb EXCEPT ![ii + 1] = p.sout], ii, p.pi, j))
  IN IF k >= Len(s) THEN tab
     ELSE With(ansiColorRegex(s, k), LAMBDA e :
            IF e # -1 THEN addSplittersLine(tab, i, s, e, j)
            ELSE IF isVerticalSeparator(decoded(At(s, k)))
            THEN With(IF i > 0 THEN at(tab, i - 1) ELSE tab, LAMBDA above :
                   With(IF i <= Len(tab) - 2 THEN at(above, i + 1) ELSE above,
                     LAMBDA below : addSplittersLine(below, i, s, k + 1, j + 1)))
            ELSE addSplittersLine(tab, i, s, k + 1, j + 1))

\* the outer loop of addSplitters from line i on
RECURSIVE addSplittersFrom(_, _)
addSplittersFrom(tab, i) ==
  IF i >= Len(tab) THEN tab
  ELSE With(addSplittersLine(tab, i, At(tab, i), 0, 0), LAMBDA done :
         addSplittersFrom(done, i + 1))

addSplitters(tab) == addSplittersFrom(tab, 0)

PanicInt == [panic |-> TRUE, v |-> 0]

\* Table.getColumnsWidth: separators plus widths of columns [jinit, jinit+n)
RECURSIVE getColumnsWidth(_, _, _)
getColumnsWidth(t, jinit, n) ==
  IF n <= 0 THEN [panic |-> FALSE, v |-> 0]
  ELSE IF ~InRange(jinit, Len(t.columns)) THEN PanicInt
  ELSE With(getColumnsWidth(t, jinit + 1, n - 1), LAMBDA rest :
         [panic |-> rest.panic,
          v |-> countPrintableRuneInString(Col(t, jinit).sep) + Col(t, jinit).width + rest.v])

\* Table.getRowsHeight: heights of rows [iinit, iinit+n), a rule row that follows
\* a row counting for one line
RECURSIVE getRowsHeightFrom(_, _, _, _)
getRowsHeightFrom(t, irow, lim, inner) ==
  IF irow >= lim THEN [panic |-> FALSE, v |-> 0]
  ELSE IF ~inner
  THEN IF ~InRange(irow, Len(t.rows)) THEN PanicInt
       ELSE With(getRowsHeightFrom(t, irow + 1, lim, TRUE), LAMBDA rest :
              [panic |-> rest.panic, v |-> Row(t, irow).height + rest.v])
  ELSE IF ~InRange(irow, Len(t.cells)) \/ Len(t.cells[irow + 1]) = 0 THEN PanicInt
  ELSE IF Cell(t, irow, 0).kind = "hrule"
  THEN With(getRowsHeightFrom(t, irow + 1, lim, TRUE), LAMBDA rest :
         [panic |-> rest.panic, v |-> 1 + rest.v])
  ELSE getRowsHeightFrom(t, irow, lim, FALSE)

getRowsHeight(t, iinit, n) == getRowsHeightFrom(t, iinit, iinit + n, FALSE)

\* distributeShare with a remainder loop that runs once more (idx <= remainder)
distributeShareOnceMore(n, k, idx) ==
  (IF n >= k THEN GoDiv(n, k) ELSE 0) + (IF idx <= GoMod(n, k) THEN 1 ELSE 0)

\* distributeShare without the remainder
distributeShareOfQuotient(n, k, idx) == IF n >= k THEN GoDiv(n, k) ELSE 0

\* what distributeColumns and distributeRows add to the idx-th (0-based) of k
\* entries when n is distributed
distributeShare(n, k, idx) ==
  (IF n >= k THEN GoDiv(n, k) ELSE 0) + (IF idx < GoMod(n, k) THEN 1 ELSE 0)

\* distributeColumns taking the shares away from the widths
distributeColumnsTaking(n, columns) ==
  IF Len(columns) = 0 THEN [panic |-> TRUE, columns |-> columns]
  ELSE [panic |-> FALSE,
        columns |-> [idx \in 1..Len(columns) |->
                       [columns[idx] EXCEPT
                          !.width = @ - distributeShare(n, Len(columns), idx - 1)]]]

\* distributeColumns(n, columns): a division by zero on an empty slice
distributeColumns(n, columns) ==
  IF Len(columns) = 0 THEN [panic |-> TRUE, columns |-> columns]
  ELSE [panic |-> FALSE,
        columns |-> [idx \in 1..Len(columns) |->
                       [columns[idx] EXCEPT
                          !.width = @ + distributeShare(n, Len(columns), idx - 1)]]]

\* distributeRows(n, rows)
distributeRows(n, rows) ==
  IF Len(rows) = 0 THEN [panic |-> TRUE, rows |-> rows]
  ELSE [panic |-> FALSE,
        rows |-> [idx \in 1..Len(rows) |->
                    [rows[idx] EXCEPT
                       !.height = @ + distributeShare(n, Len(rows), idx - 1)]]]

\* s[lo:hi] of a slice of n entries is out of range
BadSlice(lo, hi, n) == lo < 0 \/ hi < lo \/ hi > n

\* s with its entries [lo, hi) replaced by those of part
Splice(s, lo, part) ==
  [k \in 1..Len(s) |-> IF k > lo /\ k <= lo + Len(part) THEN part[k - lo] ELSE s[k]]

PanicTable(t) == [panic |-> TRUE, table |-> t]

\* the first loop of distributeAllColumns from the k-th cell on (column by
\* column): the columns of the table grow to the width of each multicell
RECURSIVE distributeTableColumns(_, _)
distributeTableColumns(t, k) ==
  IF Len(t.rows) = 0 \/ k >= Len(t.columns) * Len(t.rows) THEN [panic |-> FALSE, table |-> t]
  ELSE LET jcol == k \div Len(t.rows)
           irow == k % Len(t.rows)
       IN IF ~InRange(jcol, Len(t.cells[irow + 1])) THEN PanicTable(t)
          ELSE IF Cell(t, irow, jcol).kind # "multicell" THEN distributeTableColumns(t, k + 1)
          ELSE With(<<getColumnsWidth(t, Cell(t, irow, jcol).jinit, Cell(t, irow, jcol).nbcolumns),
                      getColumnsWidth(Cell(t, irow, jcol).table, 0, Len(Cell(t, irow, jcol).table.columns))>>,
                 LAMBDA w :
                   LET m == Cell(t, irow, jcol)
                       tWidth == w[1]
                       mWidth == w[2]
                   IN IF tWidth.panic \/ mWidth.panic THEN PanicTable(t)
                      ELSE IF tWidth.v < mWidth.v
                      THEN IF BadSlice(m.jinit, m.jinit + m.nbcolumns, Len(t.columns))
                           THEN PanicTable(t)
                           ELSE With(distributeColumns(mWidth.v - tWidth.v,
                                       SubSeq(t.columns, m.jinit + 1, m.jinit + m.nbcolumns)),
                                  LAMBDA d :
                                    IF d.panic THEN PanicTable(t)
                                    ELSE distributeTableColumns(
                                           [t EXCEPT !.columns = Splice(@, m.jinit, d.columns)],
                                           k + 1))
                      ELSE distributeTableColumns(t, k + 1))

\* the second loop of distributeAllColumns leaving every multicell as it is
keepMulticellColumns(t, k) == [panic |-> FALSE, table |-> t]

\* the second loop of distributeAllColumns: the columns of each multicell grow to
\* the width of the columns it spans
RECURSIVE distributeMulticellColumns(_, _)
distributeMulticellColumns(t, k) ==
  IF Len(t.rows) = 0 \/ k >= Len(t.columns) * Len(t.rows) THEN [panic |-> FALSE, table |-> t]
  ELSE LET jcol == k \div Len(t.rows)
           irow == k % Len(t.rows)
       IN IF ~InRange(jcol, Len(t.cells[irow + 1])) THEN PanicTable(t)
          ELSE IF Cell(t, irow, jcol).kind # "multicell" THEN distributeMulticellColumns(t, k + 1)
          ELSE With(<<getColumnsWidth(t, Cell(t, irow, jcol).jinit, Cell(t, irow, jcol).nbcolumns),
                      getColumnsWidth(Cell(t, irow, jcol).table, 0, Len(Cell(t, irow, jcol).table.columns))>>,
                 LAMBDA w :
                   LET m == Cell(t, irow, jcol)
                       tWidth == w[1]
                       mWidth == w[2]
                   IN IF tWidth.panic \/ mWidth.panic THEN PanicTable(t)
                      ELSE IF tWidth.v > mWidth.v
                      THEN With(distributeColumns(tWidth.v - mWidth.v, m.table.columns), LAMBDA d :
                             IF d.panic THEN PanicTable(t)
                             ELSE distributeMulticellColumns(
                                    [t EXCEPT !.cells[irow + 1][jcol + 1].table.columns =
                                       d.columns],
                                    k + 1))
                      ELSE distributeMulticellColumns(t, k + 1))

\* Table.distributeAllColumns
distributeAllColumns(t) ==
  With(distributeTableColumns(t, 0), LAMBDA first :
    IF first.panic THEN first ELSE distributeMulticellColumns(first.table, 0))

\* the first loop of distributeAllRows: the rows of the table grow
RECURSIVE distributeTableRows(_, _)
distributeTableRows(t, k) ==
  IF Len(t.rows) = 0 \/ k >= Len(t.columns) * Len(t.rows) THEN [panic |-> FALSE, table |-> t]
  ELSE LET jcol == k \div Len(t.rows)
           irow == k % Len(t.rows)
       IN IF ~InRange(jcol, Len(t.cells[irow + 1])) THEN PanicTable(t)
          ELSE IF Cell(t, irow, jcol).kind # "multicell" THEN distributeTableRows(t, k + 1)
          ELSE With(<<getRowsHeight(t, Cell(t, irow, jcol).iinit, Cell(t, irow, jcol).nbrows),
                      getRowsHeight(Cell(t, irow, jcol).table, 0, Len(Cell(t, irow, jcol).table.rows))>>,
                 LAMBDA w :
                   LET m == Cell(t, irow, jcol)
                       tHeight == w[1]
                       mHeight == w[2]
                   IN IF tHeight.panic \/ mHeight.panic THEN PanicTable(t)
                      ELSE IF tHeight.v < mHeight.v
                      THEN IF BadSlice(m.iinit, m.iinit + m.nbrows, Len(t.rows))
                           THEN PanicTable(t)
                           ELSE With(distributeRows(mHeight.v - tHeight.v,
                                       SubSeq(t.rows, m.iinit + 1, m.iinit + m.nbrows)),
                                  LAMBDA d :
                                    IF d.panic THEN PanicTable(t)
                                    ELSE distributeTableRows(
                                           [t EXCEPT !.rows = Splice(@, m.iinit, d.rows)],
                                           k + 1))
                      ELSE distributeTableRows(t, k + 1))

\* the second loop of distributeAllRows: the rows of each multicell grow
RECURSIVE distributeMulticellRows(_, _)
distributeMulticellRows(t, k) ==
  IF Len(t.rows) = 0 \/ k >= Len(t.columns) * Len(t.rows) THEN [panic |-> FALSE, table |-> t]
  ELSE LET jcol == k \div Len(t.rows)
           irow == k % Len(t.rows)
       IN IF ~InRange(jcol, Len(t.cells[irow + 1])) THEN PanicTable(t)
          ELSE IF Cell(t, irow, jcol).kind # "multicell" THEN distributeMulticellRows(t, k + 1)
          ELSE With(<<getRowsHeight(t, Cell(t, irow, jcol).iinit, Cell(t, irow, jcol).nbrows),
                      getRowsHeight(Cell(t, irow, jcol).table, 0, Len(Cell(t, irow, jcol).table.rows))>>,
                 LAMBDA w :
                   LET m == Cell(t, irow, jcol)
                       tHeight == w[1]
                       mHeight == w[2]
                   IN IF tHeight.panic \/ mHeight.panic THEN PanicTable(t)
                      ELSE IF tHeight.v > mHeight.v
                      THEN With(distributeRows(tHeight.v - mHeight.v, m.table.rows), LAMBDA d :
                             IF d.panic THEN PanicTable(t)
                             ELSE distributeMulticellRows(
                                    [t EXCEPT !.cells[irow + 1][jcol + 1].table.rows =
                                       d.rows],
                                    k + 1))
                      ELSE distributeMulticellRows(t, k + 1))

\* Table.distributeAllRows
distributeAllRows(t) ==
  With(distributeTableRows(t, 0), LAMBDA first :
    IF first.panic THEN first ELSE distributeMulticellRows(first.table, 0))

\* ------------------------------------------------------------ Table.String

\* strings.Split(strings.Join(output, "\n"), "\n")
RECURSIVE splitJoined(_)
splitJoined(output) ==
  IF output = <<>> THEN <<>>
  ELSE newlineSplit(Head(output), <<>>) \o splitJoined(Tail(output))

joinSplit(output) == IF output = <<>> THEN <<horizontal_empty>> ELSE splitJoined(output)

RECURSIVE String(_)

\* multicell.Process: one line per line of the rendered table of the multicell.
\* When the multicell has no separator of its own and the multicell before it in
\* the row left one, the table is made again (empty) from that separator and the
\* column specification.  table is the table of the multicell as the slices
\* shared with the grid hold it afterwards.
multicellProcess(m, t, irow, jcol) ==
  With(IF Col(m.table, 0).sep = <<>> /\ irow < Len(t.rows)
       THEN IF InRange(irow, Len(t.cells))
            THEN getPreviousHorizontalMerger(t, irow, jcol, 0)
            ELSE [panic |-> TRUE, found |-> FALSE, cell |-> nilCell]
       ELSE [panic |-> FALSE, found |-> FALSE, cell |-> nilCell],
    LAMBDA mprev :
      With(mprev.found /\ mprev.cell.clastsep # <<>>, LAMBDA redo :
        With(IF redo THEN NewTable(mprev.cell.clastsep \o m.cspec, <<>>)
             ELSE [err |-> FALSE, table |-> m.table],
          LAMBDA made :
            IF mprev.panic \/ made.err \/ Len(made.table.columns) > Len(m.table.columns)
            THEN [panic |-> TRUE, lines |-> <<>>, table |-> m.table]
            ELSE With(String(
                        IF redo
                        THEN [made.table EXCEPT !.columns =
                                [idx \in 1..Len(made.table.columns) |->
                                   [made.table.columns[idx] EXCEPT !.width =
                                      m.table.columns[idx].width
                                      - (IF idx = 1
                                         THEN countPrintableRuneInString(mprev.cell.clastsep)
                                         ELSE 0)]]]
                        ELSE m.table),
                   LAMBDA r :
                     [panic |-> r.panic, lines |-> joinSplit(r.output),
                      table |-> IF redo THEN m.table ELSE r.table]))))

\* multicell.Format on one line of the multicell found at (irow, jcol)
multicellFormat(line, t, irow, jcol) ==
  LET m == Cell(t, irow, jcol)
  IN [panic |-> FALSE,
      str |-> IF m.jinit + m.nbcolumns < Len(t.columns) THEN line ELSE line \o m.clastsep]

\* Process of the formatter at (i, j) of the grid; a nil formatter cannot be called
processCell(t, i, j) ==
  LET cell == Cell(t, i, j)
  IN CASE cell.kind = "content" ->
            With(contentProcess(cell.str, t, i, j), LAMBDA r :
              [panic |-> r.panic, lines |-> r.lines, table |-> t])
       [] cell.kind = "hrule" ->
            With(hruleProcess(cell, t, i, j), LAMBDA r :
              [panic |-> r.panic, lines |-> r.lines, table |-> t])
       [] cell.kind = "multicell" ->
            With(multicellProcess(cell, t, i, j), LAMBDA r :
              [panic |-> r.panic, lines |-> r.lines,
               table |-> [t EXCEPT !.cells[i + 1][j + 1].table = r.table]])
       [] OTHER -> [panic |-> TRUE, lines |-> <<>>, table |-> t]

\* Format of one line that Process returned for the formatter at (i, j)
formatLine(line, t, i, j) ==
  CASE Cell(t, i, j).kind = "content" -> contentFormat(line, t, i, j)
    [] Cell(t, i, j).kind = "hrule" -> hruleFormat(line, t, i, j)
    [] OTHER -> multicellFormat(line, t, i, j)

\* the lines of one cell added to the output from physical line idx on
RECURSIVE emitLines(_, _, _, _, _, _)
emitLines(lines, t, i, j, idx, output) ==
  IF lines = <<>> THEN [panic |-> FALSE, idx |-> idx, output |-> output]
  ELSE With(formatLine(Head(lines), t, i, j), LAMBDA f :
         IF f.panic THEN [panic |-> TRUE, idx |-> idx, output |-> output]
         ELSE emitLines(Tail(lines), t, i, j, idx + 1,
                IF idx >= Len(output) THEN Append(output, f.str)
                ELSE [output EXCEPT ![idx + 1] = @ \o f.str]))

\* the loops of Table.String over the columns and, in each, the rows, from the
\* k-th cell on.  processed lists the grid positions whose formatter was processed.
RECURSIVE stringLoop(_, _)
stringLoop(st, k) ==
  LET t == st.table
  IN IF st.panic \/ Len(t.rows) = 0 \/ k >= Len(t.columns) * Len(t.rows) THEN st
     ELSE LET j == k \div Len(t.rows)
              i == k % Len(t.rows)
              idx0 == IF i = 0 THEN 0 ELSE st.idx
          IN IF i < st.nbrows[j + 1] THEN stringLoop([st EXCEPT !.idx = idx0], k + 1)
             ELSE IF ~InRange(j, Len(t.cells[i + 1])) THEN [st EXCEPT !.panic = TRUE]
             ELSE LET here == st.nbcolumns[i + 1] <= j /\ st.nbrows[j + 1] <= i
                      m == Cell(t, i, j)
                      isM == m.kind = "multicell"
                  IN With(IF here THEN processCell(t, i, j)
                          ELSE [panic |-> FALSE, lines |-> <<>>, table |-> t],
                       LAMBDA p :
                         With(IF here /\ ~p.panic
                              THEN emitLines(p.lines, p.table, i, j, idx0, st.output)
                              ELSE [panic |-> p.panic, idx |-> idx0 + Row(t, i).height,
                                    output |-> st.output],
                           LAMBDA e :
                             stringLoop(
                               [panic |-> e.panic,
                                table |-> p.table,
                                idx |-> e.idx,
                                output |-> e.output,
                                processed |-> IF here THEN Append(st.processed, <<i, j>>)
                                              ELSE st.processed,
                                nbcolumns |-> [st.nbcolumns EXCEPT ![i + 1] =
                                                 IF isM THEN @ + m.nbcolumns
                                                 ELSE IF @ <= j THEN @ + 1 ELSE @],
                                nbrows |-> [st.nbrows EXCEPT ![j + 1] =
                                              IF isM THEN @ + m.nbrows
                                              ELSE IF @ <= i THEN @ + 1 ELSE @]],
                               k + 1)))

\* Table.String: the lines with their junction glyphs (drawn holds them as they
\* were before addSplitters), the table as the pass leaves it, or a panic
String(t) ==
  With(distributeAllColumns(t), LAMBDA dc :
    With(IF dc.panic THEN dc ELSE distributeAllRows(dc.table), LAMBDA dr :
      With(IF dr.panic
           THEN [panic |-> TRUE, table |-> dr.table, idx |-> 0, output |-> <<>>,
                 processed |-> <<>>, nbcolumns |-> <<>>, nbrows |-> <<>>]
           ELSE stringLoop([panic |-> FALSE, table |-> dr.table, idx |-> 0,
                            output |-> <<>>, processed |-> <<>>,
                            nbcolumns |-> [i \in 1..Len(t.rows) |-> 0],
                            nbrows |-> [j \in 1..Len(t.columns) |-> 0]], 0),
        LAMBDA st :
          [panic |-> st.panic, table |-> st.table,
           output |-> IF st.panic THEN st.output ELSE addSplitters(st.output),
           drawn |-> st.output,
           processed |-> st.processed])))

\* ------------------------------------------------------ AddRow and the rules

\* a value given to AddRow that is no multicell: fmt.Sprintf("%v") of a string
plain(str) == [kind |-> "value", str |-> str]

\* Table.hasMulticell: a multicell found in column jcol that reaches row irow.
\* Only the slot a multicell was stored in holds it: the other columns it spans
\* are nil.  Reading a column the rows do not have is an index out of range.
hasMulticell(t, irow, jcol) ==
  IF Len(t.rows) = 0 THEN [panic |-> FALSE, v |-> FALSE]
  ELSE IF ~InRange(jcol, Len(t.cells[1])) THEN [panic |-> TRUE, v |-> FALSE]
  ELSE [panic |-> FALSE,
        v |-> \E i \in 0..(Len(t.rows) - 1) :
                /\ Cell(t, i, jcol).kind = "multicell"
                /\ Cell(t, i, jcol).iinit + Cell(t, i, jcol).nbrows > irow]

\* for t.hasMulticell(len(t.rows), j) { j++ }
RECURSIVE skipMulticells(_, _)
skipMulticells(t, j) ==
  With(hasMulticell(t, Len(t.rows), j), LAMBDA h :
    IF h.panic THEN [panic |-> TRUE, j |-> j]
    ELSE IF h.v THEN skipMulticells(t, j + 1)
    ELSE [panic |-> FALSE, j |-> j])

\* widenColumn measuring a line by all its runes, those of colour sequences too
widenColumnByRunes(col, contents) ==
  IF isParagraph(col)
  THEN IF col.width < col.hformat.arg THEN [col EXCEPT !.width = col.hformat.arg] ELSE col
  ELSE [col EXCEPT !.width =
          With({Len(contents[k]) : k \in 1..Len(contents)} \cup {col.width},
            LAMBDA lens : CHOOSE x \in lens : \A y \in lens : y <= x)]

\* the widths of column j after a content whose lines are contents went into it
widenColumn(col, contents) ==
  IF isParagraph(col)
  THEN IF col.width < col.hformat.arg THEN [col EXCEPT !.width = col.hformat.arg] ELSE col
  ELSE [col EXCEPT !.width =
          With({countPrintableRuneInString(contents[k]) : k \in 1..Len(contents)}
                 \cup {col.width},
            LAMBDA lens : CHOOSE x \in lens : \A y \in lens : y <= x)]

\* the multicell as AddRow stores it at column j of the row being added
placeMulticell(m0, t, j) ==
  LET m1 == [m0 EXCEPT !.jinit = j, !.iinit = Len(t.rows)]
  IN IF m1.mtype = multicolumn_t
     THEN [m1 EXCEPT !.table.columns[1].vformat = Col(t, j).vformat]
     ELSE IF m1.mtype = multirow_t
     THEN [m1 EXCEPT !.table.columns[1].sep = Col(t, j).sep,
                     !.table.columns[1].hformat = Col(t, j).hformat]
     ELSE m1

\* one turn of the loop of AddRow, on the idx-th value.  st holds the table (its
\* column widths change as the values go in), j, height, the row icells and the
\* trace of (idx, j) at which each value was taken.
addRowTurn(st, cells, idx) ==
  LET t == st.table
  IN IF ~(idx < GetNbColumns(t) /\ idx < Len(cells)) THEN st
     ELSE With(skipMulticells(t, st.j), LAMBDA sk :
       LET j == sk.j
           cell == At(cells, idx)
           at == Append(st.at, j)
       IN IF sk.panic THEN [st EXCEPT !.status = "panic"]
          ELSE IF j >= GetNbColumns(t) THEN [st EXCEPT !.status = "error", !.j = j]
          ELSE IF cell.kind = "multicell"
          THEN IF j + cell.nbcolumns > GetNbColumns(t)
               THEN [st EXCEPT !.status = "error", !.j = j, !.at = at]
               ELSE IF j < 0 THEN [st EXCEPT !.status = "panic", !.j = j, !.at = at]
               ELSE With(placeMulticell(cell, t, j), LAMBDA m :
                      With(multicellProcess(m, t, Len(t.rows), j), LAMBDA pr :
                        IF pr.panic \/ m.nbrows = 0
                        THEN [st EXCEPT !.status = "panic", !.j = j, !.at = at]
                        ELSE [st EXCEPT !.j = j + m.nbcolumns, !.at = at,
                                !.height = max(@, GoDiv(Len(pr.lines), m.nbrows)),
                                !.icells[j + 1] = [m EXCEPT !.table = pr.table]]))
          ELSE IF j < 0 THEN [st EXCEPT !.status = "panic", !.j = j, !.at = at]
          ELSE With(contentProcess(cell.str, t, Len(t.rows), j), LAMBDA pr :
                 IF pr.panic THEN [st EXCEPT !.status = "panic", !.j = j, !.at = at]
                 ELSE [st EXCEPT !.j = j + 1, !.at = at,
                         !.height = max(@, Len(pr.lines)),
                         !.icells[j + 1] = content(cell.str),
                         !.table.columns[j + 1] = widenColumn(@, pr.lines)]))

\* the loop of AddRow over n values from the idx-th on, taken by halves; it ends
\* with the first value that is an error or a panic
RECURSIVE addRowLoop(_, _, _, _)
addRowLoop(st, cells, idx, n) ==
  IF n <= 0 THEN st
  ELSE IF n = 1 THEN addRowTurn(st, cells, idx)
  ELSE With(addRowLoop(st, cells, idx, n \div 2), LAMBDA half :
         IF half.status # "nil" THEN half
         ELSE addRowLoop(half, cells, idx + n \div 2, n - n \div 2))

\* Table.AddRow(cells...): status is "nil" (a row was appended), "error" or
\* "panic"; table is the table afterwards; at[idx] is the column the idx-th value
\* was taken at
AddRow(t, cells) ==
  IF GetNbColumns(t) < Len(cells)
  THEN [status |-> "error", table |-> t, at |-> <<>>, height |-> 0]
  ELSE With(addRowLoop([status |-> "nil", table |-> t, j |-> 0, height |-> 0,
                        icells |-> [k \in 1..Len(t.columns) |-> nilCell],
                        at |-> <<>>], cells, 0, Len(cells)),
         LAMBDA st :
           LET icells == [k \in 1..Len(t.columns) |->
                            IF k > st.j THEN content(horizontal_empty) ELSE st.icells[k]]
           IN IF st.status # "nil"
              THEN [status |-> st.status, table |-> st.table, at |-> st.at,
                    height |-> st.height]
              ELSE IF st.j < 0 /\ Len(t.columns) > 0
              THEN [status |-> "panic", table |-> st.table, at |-> st.at,
                    height |-> st.height]
              ELSE [status |-> "nil",
                    table |-> [st.table EXCEPT !.cells = Append(@, icells),
                                               !.rows = Append(@, [height |-> st.height])],
                    at |-> st.at, height |-> st.height])

\* the pairs (start, end) of cols from the i-th entry on: an end before its start
\* is an error; writing icells[j] for a negative j is an index out of range
RECURSIVE addRulePairs(_, _, _, _, _)
addRulePairs(t, rule, cols, i, icells) ==
  IF i >= Len(cols) THEN [status |-> "nil", icells |-> icells]
  ELSE LET start == At(cols, i)
           end == At(cols, i + 1)
       IN IF start > end THEN [status |-> "error", icells |-> icells]
          ELSE IF start < 0 /\ start < end /\ start < GetNbColumns(t)
          THEN [status |-> "panic", icells |-> icells]
          ELSE addRulePairs(t, rule, cols, i + 2,
                 [j \in 1..Len(icells) |->
                    IF j - 1 >= start /\ j - 1 < end /\ j - 1 < GetNbColumns(t)
                    THEN hrule(<<rule>>) ELSE icells[j]])

\* Table.addRule(rule, cols...)
addRule(t, rule, cols0) ==
  IF Len(cols0) % 2 # 0 THEN [status |-> "error", table |-> t]
  ELSE With(addRulePairs(t, rule,
                IF Len(cols0) = 0 THEN <<0, Len(t.columns)>> ELSE cols0, 0,
                [i \in 1..GetNbColumns(t) |-> hrule(<<horizontal_blank>>)]),
         LAMBDA pr :
           LET icells == IF Len(t.columns) > 0
                            /\ t.columns[Len(t.columns)].hformat.alignment = none
                         THEN Append(pr.icells, hrule(horizontal_empty))
                         ELSE pr.icells
           IN IF pr.status # "nil" THEN [status |-> pr.status, table |-> t]
              ELSE [status |-> "nil",
                    table |-> [t EXCEPT !.cells = Append(@, icells),
                                        !.rows = Append(@, [height |-> 1])]])

AddSingleRule(t, cols) == addRule(t, horizontal_single, cols)

AddDoubleRule(t, cols) == addRule(t, horizontal_double, cols)

\* AddThickRule answering as the rule does but keeping no row of it
AddThickRuleUnstored(t, cols) ==
  [status |-> addRule(t, horizontal_thick, cols).status, table |-> t]

AddThickRule(t, cols) == addRule(t, horizontal_thick, cols)

\* -------------------------------------------------------------- multicell.go

\* the rows NewMulticell adds to the table of the multicell: the arguments taken
\* len(t.columns) at a time; an error of AddRow is ignored
RECURSIVE addArgs(_, _)
addArgs(t, args) ==
  IF args = <<>> THEN [panic |-> FALSE, table |-> t]
  ELSE With(AddRow(t, SubSeqTo(args, min(Len(t.columns), Len(args)))), LAMBDA r :
         IF r.status = "panic" THEN [panic |-> TRUE, table |-> t]
         ELSE addArgs(r.table, SubSeqFrom(args, min(Len(t.columns), Len(args)))))

\* NewMulticell(nbcolumns, nbrows, cspec, rspec, args...)
NewMulticell(nbcolumns, nbrows, cspec, rspec, args) ==
  With(<<stripLastColSeparator(cspec), stripLastRowSeparator(rspec)>>, LAMBDA s :
    LET c == s[1]
        r == s[2]
    IN With(NewTable(c.spec, r.spec), LAMBDA nt :
         With(IF nt.err THEN [panic |-> FALSE, table |-> nt.table]
              ELSE addArgs(nt.table, args),
           LAMBDA filled :
             [err |-> nt.err, panic |-> filled.panic,
              m |-> [kind |-> "multicell", mtype |-> multicell_t,
                     jinit |-> 0, nbcolumns |-> nbcolumns, iinit |-> 0, nbrows |-> nbrows,
                     cspec |-> c.spec, rspec |-> r.spec,
                     clastsep |-> c.lastsep, rlastsep |-> r.lastsep,
                     table |-> filled.table]])))

\* Multicell(...): NewMulticell, panicking on an error (the inputs below are built
\* from specifications NewMulticell accepts)
Multicell(nbcolumns, nbrows, cspec, rspec, args) ==
  NewMulticell(nbcolumns, nbrows, cspec, rspec, args).m

Multicolumn(nbcolumns, cspec, args) ==
  [Multicell(nbcolumns, 1, cspec, <<"t">>, args) EXCEPT !.mtype = multicolumn_t]

Multirow(nbrows, rspec, arg) ==
  [Multicell(1, nbrows, <<"c">>, rspec, <<arg>>) EXCEPT !.mtype = multirow_t]

\* ------------------------------------------------------------------ app.go

\* strings.TrimSuffix(s, "\n")
TrimNewline(s) == IF s # <<>> /\ s[Len(s)] = NL THEN SubSeq(s, 1, Len(s) - 1) ELSE s

\* evaluateBranchSyncStatus: whether all branches are synced, and the
\* description
evaluateBranchSyncStatus(gitOut) ==
  With(newlineSplit(TrimNewline(gitOut), <<>>), LAMBDA branches :
    LET branchesNoRemote == \E k \in 1..Len(branches) : branches[k] = <<>>
        branchesAhead == \E k \in 1..Len(branches) : branches[k] = <<">">>
        branchesBehind == \E k \in 1..Len(branches) : branches[k] = <<"<">>
    IN [synced |-> ~branchesNoRemote /\ ~branchesAhead /\ ~branchesBehind,
        description |->
          (IF branchesNoRemote THEN
             <<"-", " ", "h", "a", "s", " ", "b", "r", "a", "n", "c", "h", "(", "e", "s",
             ")", " ", "w", "i", "t", "h", " ", "n", "o", " ", "r", "e", "m", "o", "t", "e",
             " ", "b", "r", "a", "n", "c", "h", NL>> ELSE <<>>)
          \o (IF branchesAhead THEN
             <<"-", " ", "h", "a", "s", " ", "b", "r", "a", "n", "c", "h", "(", "e", "s",
             ")", " ", "t", "h", "a", "t", " ", "a", "r", "e", " ", "a", "h", "e", "a", "d",
             NL>> ELSE <<>>)
          \o (IF branchesBehind THEN
             <<"-", " ", "h", "a", "s", " ", "b", "r", "a", "n", "c", "h", "(", "e", "s",
             ")", " ", "t", "h", "a", "t", " ", "a", "r", "e", " ", "b", "e", "h", "i", "n",
             "d", NL>> ELSE <<>>)])

evaluateCommitSyncStatus(gitOut) ==
  IF gitOut = <<>> THEN [synced |-> TRUE, description |-> <<>>]
  ELSE [synced |-> FALSE,
        description |-> <<"-", " ", "h", "a", "s", " ", "u", "n", "c", "o", "m", "m", "i",
                        "t", "t", "e", "d", " ", "c", "h", "a", "n", "g", "e", "s", NL>>]

\* getSyncStatus with what the two git commands print: status is the output of
\* git status -s, branches that of git for-each-ref; kind "git" is the failure
\* of the first command and "ref" that of the second
getSyncStatus(env) ==
  IF env.kind = "git" THEN [err |-> TRUE, synced |-> FALSE, description |-> <<>>]
  ELSE IF env.kind = "ref"
  THEN [err |-> FALSE, synced |-> FALSE,
        description |-> <<"E", "r", "r", "o", "r", ":", " ">> \o env.branches]
  ELSE With(<<evaluateCommitSyncStatus(env.status), evaluateBranchSyncStatus(env.branches)>>,
         LAMBDA r :
           [err |-> FALSE, synced |-> r[2].synced /\ r[1].synced,
            description |-> TrimNewline(r[1].description \o r[2].description)])

\* the zero value of Repo, and the Repo a goroutine stores for a path under root
zeroRepo ==
  [Name |-> <<>>, Path |-> <<>>, AbsPath |-> <<>>,
   LastModified |-> [year |-> 1, month |-> 1, day |-> 1],
   SyncedWithRemote |-> FALSE, SyncDescription |-> <<>>, Author |-> <<>>]

newRepo(root, path, env) ==
  With(getSyncStatus(env), LAMBDA s :
    [Name |-> path, Path |-> path, AbsPath |-> root \o <<"/">> \o path,
     LastModified |-> [year |-> 2024, month |-> 1, day |-> 2],
     SyncedWithRemote |-> s.synced, SyncDescription |-> s.description,
     Author |-> <<"A">>])

\* fmt.Sprintf("%04d-%02d-%02d", year, int(month), day)
dateString(d) ==
  LET digit(n) == <<"0", "1", "2", "3", "4", "5", "6", "7", "8", "9">>[(n % 10) + 1]
  IN <<digit(d.year \div 1000), digit(d.year \div 100), digit(d.year \div 10), digit(d.year),
       "-", digit(d.month \div 10), digit(d.month), "-", digit(d.day \div 10), digit(d.day)>>

\* ConstructTSVOutput: the header line and one line for each repo that has a name
RECURSIVE tsvRows(_)
tsvRows(repos) ==
  IF repos = <<>> THEN <<>>
  ELSE LET repo == Head(repos)
       IN (IF repo.Name = <<>> THEN <<>>
           ELSE repo.Name \o <<"\t">> \o repo.AbsPath \o <<"\t">> \o repo.Author \o <<"\t">>
                \o dateString(repo.LastModified) \o <<"\t">>
                \o (IF repo.SyncedWithRemote THEN <<"t", "r", "u", "e">>
                    ELSE <<"f", "a", "l", "s", "e">>) \o <<"\t">>
                \o [k \in 1..Len(repo.SyncDescription) |->
                      IF repo.SyncDescription[k] = NL THEN " " ELSE repo.SyncDescription[k]]
                \o <<NL>>)
          \o tsvRows(Tail(repos))

ConstructTSVOutput(repos) ==
  <<"N", "a", "m", "e", "\t", "P", "a", "t", "h", "\t", "A", "u", "t", "h", "o", "r", "\t",
  "L", "a", "s", "t", "M", "o", "d", "i", "f", "i", "e", "d", "\t", "S", "y", "n", "c", "e",
  "d", "W", "i", "t", "h", "R", "e", "m", "o", "t", "e", "\t", "S", "y", "n", "c", "D", "e",
  "s", "c", "r", "i", "p", "t", "i", "o", "n", NL>>
  \o tsvRows(repos)

\* ConstructSummary: the numbers the sentence "%v repos found in %v: %v repo(s)
\* are not synced" is given
ConstructSummary(repos, root) ==
  [countRepos |-> Len(repos),
   root |-> root,
   countUnsynced |-> Cardinality({k \in 1..Len(repos) :
                        repos[k].Name # <<>> /\ ~repos[k].SyncedWithRemote})]

\* the loop of ConstructTable: a row and a single rule for each repo that has
\* a name; what AddRow and AddSingleRule return is not looked at
RECURSIVE tableRows(_, _)
tableRows(tab, repos) ==
  IF repos = <<>> THEN [panic |-> FALSE, table |-> tab]
  ELSE IF Head(repos).Name = <<>> THEN tableRows(tab, Tail(repos))
  ELSE LET repo == Head(repos)
       IN With(AddRow(tab, <<plain(repo.Name), plain(repo.AbsPath), plain(repo.Author),
                             plain(dateString(repo.LastModified)),
                             plain(IF repo.SyncedWithRemote THEN <<"y", "e", "s">>
                                   ELSE <<"n", "o">>),
                             plain(repo.SyncDescription)>>),
            LAMBDA row :
              IF row.status = "panic" THEN [panic |-> TRUE, table |-> tab]
              ELSE With(AddSingleRule(row.table, <<>>), LAMBDA rule :
                     IF rule.status = "panic" THEN [panic |-> TRUE, table |-> row.table]
                     ELSE tableRows(rule.table, Tail(repos))))

\* ConstructTable: the table of "| C{15} | L{20} | C{12} | c | c | L{27} |" with
\* a thick rule, the row of the titles, a thick rule and the rows of the repos
ConstructTable(repos) ==
  With(NewTable(<<"|", " ", "C", "{", "1", "5", "}", " ", "|", " ", "L", "{", "2", "0", "}",
                " ", "|", " ", "C", "{", "1", "2", "}", " ", "|", " ", "c", " ", "|", " ",
                "c", " ", "|", " ", "L", "{", "2", "7", "}", " ", "|">>, <<>>),
    LAMBDA made :
      IF made.err THEN [err |-> TRUE, panic |-> FALSE, table |-> emptyTable]
      ELSE With(AddThickRule(made.table, <<>>), LAMBDA top :
        IF top.status = "panic" THEN [err |-> FALSE, panic |-> TRUE, table |-> made.table]
        ELSE With(AddRow(top.table,
                    <<plain(<<"R", "e", "p", "o">>),
                      plain(<<"P", "a", "t", "h">>),
                      plain(<<"A", "u", "t", "h", "o", "r">>),
                      plain(<<"L", "a", "s", "t", " ", "M", "o", "d", "i", "f", "i", "e", "d">>),
                      plain(<<"S", "y", "n", "c", "e", "d", "?">>),
                      plain(<<"S", "y", "n", "c", " ", "D", "e", "t", "a", "i", "l", "s">>)>>),
               LAMBDA titles :
          IF titles.status = "panic" THEN [err |-> FALSE, panic |-> TRUE, table |-> top.table]
          ELSE With(AddThickRule(titles.table, <<>>), LAMBDA head :
            IF head.status = "panic"
            THEN [err |-> FALSE, panic |-> TRUE, table |-> titles.table]
            ELSE With(tableRows(head.table, repos), LAMBDA r :
                   [err |-> FALSE, panic |-> r.panic, table |-> r.table])))))

\* GetReposWithDetails before it is called
NoRun ==
  [stage |-> "idle", root |-> <<>>, paths |-> <<>>, env |-> <<>>, repos |-> <<>>,
   spawned |-> 0, pc |-> <<>>, wg |-> 0, err |-> FALSE, result |-> <<>>]

\* ---------------------------------------------------------------- the model

\* the rows a table is given, the calls made on it, the largest span of a
\* multicell and the largest column index given to a rule
MaxRows == 2
MaxCalls == 3
MaxSpan == 2
MaxIndex == 2

VARIABLES
  client,  \* the program that drives the table
  t,       \* the table
  made,    \* whether NewTable returned no error
  call,    \* the last call: its name and its arguments
  ret,     \* what it returned: "nil", "error", "panic" when it ended the
           \* process, or "true" and "false" for a helper that answers so
  ncalls,  \* the AddRow and Add*Rule calls made so far
  nok,     \* those that returned nil
  plainOnly, \* whether no multicell was given to AddRow so far
  out,     \* what the last call returned besides its error: the lines of String
  run      \* GetReposWithDetails: the paths found, the goroutines, the slice

vars == <<client, t, made, call, ret, ncalls, nok, plainOnly, out, run>>

\* The client programs.  Each makes its table from one specification and draws
\* the arguments of its calls from its own families of values and indices:
\*   "column"    one column, rows of one value or one multicell
\*   "grid"      two columns, rows that mix values and multicells
\*   "paragraph" a centred and a paragraph column and a last separator, plain rows
\*   "rules"     one column and a last separator, rules over every index
\*   "invalid"   a specification NewTable refuses
Clients == {"column", "grid", "paragraph", "rules", "invalid"}

TableSpec(c) ==
  CASE c = "column" -> [col |-> <<"l">>, row |-> <<>>]
    [] c = "grid" -> [col |-> <<"l", "|", "r">>, row |-> <<>>]
    [] c = "paragraph" -> [col |-> <<"c", "p", "{", "2", "}", "|">>, row |-> <<"c">>]
    [] c = "rules" -> [col |-> <<"l", "|">>, row |-> <<>>]
    [] c = "invalid" -> [col |-> <<"|">>, row |-> <<>>]

A == plain(<<"a">>)

\* a value of one line, one of two words, and one of two lines the first of
\* which is coloured
PlainValues ==
  { A, plain(<<"a", "a", " ", "a">>),
    plain(<<ESC, "[", "1", "m", "a", NL, "a", "a", "a">>) }

\* multicells of the spans 2..MaxSpan, and one of no column and no row
MulticellValues ==
  { Multirow(n, <<"c">>, A) : n \in 2..MaxSpan }
  \cup { Multicolumn(n, <<"c">>, <<plain(<<"a", "a", "a">>)>>) : n \in 2..MaxSpan }
  \cup { Multicell(n, n, <<"c">>, <<"t">>, <<A>>) : n \in {0} \cup 2..MaxSpan }

SeqsUpTo(S, n) == UNION { [1..k -> S] : k \in 0..n }

\* the lists of values client c gives to AddRow on table tab; every client has
\* one list that is too long for the columns
RowInputs(c, tab) ==
  { [k \in 1..(GetNbColumns(tab) + 1) |-> A] }
  \cup CASE c = "column" -> {<<>>, <<A>>} \cup { <<m>> : m \in MulticellValues }
         [] c = "grid" ->
              {<<>>, <<A>>, <<A, A>>}
              \cup { <<m>> : m \in MulticellValues }
              \cup { <<m, A>> : m \in MulticellValues }
              \cup { <<A, m>> : m \in MulticellValues }
              \cup { <<Multicell(1, 1, <<"c", "|">>, <<"t">>, <<A>>),
                       Multicell(1, 1, <<"c">>, <<"t">>, <<A>>)>> }
         [] c = "paragraph" -> SeqsUpTo(PlainValues, 2)
         [] OTHER -> {<<>>, <<A>>}

\* the lists of column indices a client gives to a rule: none, one range, and
\* for "rules" every list of at most two indices and lists of two ranges
FewIndices == { <<>>, <<0, MaxIndex>> }

AllIndices ==
  SeqsUpTo(-1..MaxIndex, 2)
  \cup { <<a, 1, 1, d>> : a \in {-1, 0}, d \in {0, MaxIndex} }

RuleInputs(c) == IF c = "rules" THEN AllIndices ELSE FewIndices

Init ==
  \E c \in Clients :
    \E r \in {NewTable(TableSpec(c).col, TableSpec(c).row)} :
      /\ client = c
      /\ t = r.table
      /\ made = ~r.err
      /\ call = [op |-> "NewTable", args |-> <<TableSpec(c).col, TableSpec(c).row>>]
      /\ ret = IF r.err THEN "error" ELSE "nil"
      /\ ncalls = 0
      /\ nok = 0
      /\ plainOnly = TRUE
      /\ out = <<>>
      /\ run = NoRun

CanCall == ret # "panic" /\ ncalls < MaxCalls /\ Len(t.rows) < MaxRows

Returned(r) ==
  /\ t' = r.table
  /\ ret' = r.status
  /\ ncalls' = ncalls + 1
  /\ nok' = IF r.status = "nil" THEN nok + 1 ELSE nok
  /\ out' = <<>>
  /\ UNCHANGED <<client, made, run>>

DoAddRow ==
  /\ CanCall
  /\ \E cells \in RowInputs(client, t) :
       /\ call' = [op |-> "AddRow", args |-> cells]
       /\ plainOnly' = (plainOnly /\ \A k \in 1..Len(cells) : cells[k].kind = "value")
       /\ Returned(AddRow(t, cells))

DoAddSingleRule ==
  /\ CanCall
  /\ \E cols \in RuleInputs(client) :
       /\ call' = [op |-> "AddSingleRule", args |-> cols]
       /\ Returned(AddSingleRule(t, cols))
       /\ UNCHANGED plainOnly

DoAddDoubleRule ==
  /\ CanCall
  /\ \E cols \in FewIndices :
       /\ call' = [op |-> "AddDoubleRule", args |-> cols]
       /\ Returned(AddDoubleRule(t, cols))
       /\ UNCHANGED plainOnly

DoAddThickRule ==
  /\ CanCall
  /\ \E cols \in FewIndices :
       /\ call' = [op |-> "AddThickRule", args |-> cols]
       /\ Returned(AddThickRule(t, cols))
       /\ UNCHANGED plainOnly

\* fmt.Sprintf("%v", t): the table keeps the widths and heights of the pass
DoString ==
  /\ ret # "panic"
  /\ \E r \in {String(t)} :
       /\ t' = r.table
       /\ ret' = IF r.panic THEN "panic" ELSE "nil"
       /\ out' = IF r.panic THEN <<>> ELSE joinSplit(r.output)
  /\ call' = [op |-> "String", args |-> <<>>]
  /\ UNCHANGED <<client, made, ncalls, nok, plainOnly, run>>

Next == DoAddRow \/ DoAddSingleRule \/ DoAddDoubleRule \/ DoAddThickRule \/ DoString

Spec == Init /\ [][Next]_vars

\* ------------------------------------------------- the helpers on their own

MaxShortfall == 4
MaxEntries == 3
MaxLen == 4
MaxWidth == 3
MaxHeight == 4
MaxSpec == 3

\* the strings of at most MaxLen runes of a letter, a space, a newline, a
\* two-byte letter and a three-byte space
Strings == SeqsUpTo({"a", " ", NL, EACUTE, WIDESPACE}, MaxLen)

\* slices of columns and of rows of at most MaxEntries entries
ColumnSlices ==
  { [k \in 1..Len(w) |-> [sep |-> <<>>, width |-> w[k],
                          hformat |-> style("l", 0), vformat |-> style("t", 0)]] :
      w \in SeqsUpTo({0, 2}, MaxEntries) }

RowSlices == { [k \in 1..Len(h) |-> [height |-> h[k]]] : h \in SeqsUpTo({0, 2}, MaxEntries) }

\* a helper is applied to the arguments a fresh program gives it
HelperInit == Init /\ client = "column"

Fresh == call.op = "NewTable" /\ out = <<>>

Applied(op, args, status, result) ==
  /\ Fresh
  /\ call' = [op |-> op, args |-> args]
  /\ ret' = status
  /\ out' = result
  /\ UNCHANGED <<client, t, made, ncalls, nok, plainOnly, run>>

DoDistributeColumns ==
  \E n \in -1..MaxShortfall : \E columns \in ColumnSlices :
    \E r \in {distributeColumns(n, columns)} :
      Applied("distributeColumns", <<n, columns>>,
              IF r.panic THEN "panic" ELSE "nil", r.columns)

DoDistributeRows ==
  \E n \in -1..MaxShortfall : \E rows \in RowSlices :
    \E r \in {distributeRows(n, rows)} :
      Applied("distributeRows", <<n, rows>>, IF r.panic THEN "panic" ELSE "nil", r.rows)

DoSplitParagraph ==
  \E str \in Strings : \E width \in 1..MaxWidth :
    \E r \in {splitParagraph(str, width)} :
      Applied("splitParagraph", <<str, width>>, IF r.panic THEN "panic" ELSE "nil", r.lines)

\* a value of k lines
RECURSIVE linesValue(_)
linesValue(k) == IF k <= 1 THEN <<"a">> ELSE <<"a", NL>> \o linesValue(k - 1)

ProcessValues == { A, plain(linesValue(2)), plain(<<"a", "a", " ", "a">>) }

\* tables of one row whose first cell shares the row with one of k lines; the
\* first column is free or a paragraph, and aligned to the top (by default or
\* by the row specification), the bottom or the centre
ProcessTables ==
  { AddRow(NewTable(cs, rs).table, <<v, plain(linesValue(k))>>).table :
      cs \in {<<"l", "l">>, <<"p", "{", "2", "}", "l">>},
      rs \in {<<>>, <<"t">>, <<"b">>, <<"c">>},
      v \in ProcessValues,
      k \in 1..MaxHeight }

\* content.Process of the first cell of such a table
DoContentProcess ==
  \E tab \in ProcessTables :
    \E r \in {contentProcess(Cell(tab, 0, 0).str, tab, 0, 0)} :
      Applied("content.Process", <<tab, 0, 0>>, IF r.panic THEN "panic" ELSE "nil", r.lines)

\* the rows AddRow appends one after the other
RECURSIVE addRows(_, _)
addRows(tab, rows) ==
  IF rows = <<>> THEN tab ELSE addRows(AddRow(tab, Head(rows)).table, Tail(rows))

\* a table of two columns whose first column holds a Multirow over n rows, with
\* or without a rule under its first row, as distributeAllColumns and
\* distributeAllRows leave it when it is rendered
MultirowTables ==
  { distributeAllRows(distributeAllColumns(
      addRows(IF ruled
              THEN AddSingleRule(AddRow(NewTable(<<"l", "|", "r">>, <<>>).table,
                                        <<Multirow(n + 1, rs, v), A>>).table, <<>>).table
              ELSE AddRow(NewTable(<<"l", "|", "r">>, <<>>).table,
                          <<Multirow(n, rs, v), A>>).table,
              [k \in 1..(n - 1) |-> <<A>>])).table).table :
      n \in 2..MaxSpan, rs \in {<<"t">>, <<"b">>, <<"c">>}, v \in ProcessValues,
      ruled \in BOOLEAN }

\* content.Process of the content of the Multirow, in the table of the Multirow
DoMultirowProcess ==
  \E host \in MultirowTables :
    \E r \in {contentProcess(Cell(Cell(host, 0, 0).table, 0, 0).str,
                              Cell(host, 0, 0).table, 0, 0)} :
      Applied("Multirow.Process", <<host, 0, 0>>, IF r.panic THEN "panic" ELSE "nil", r.lines)

\* the runes of the rules and of the separators, none for their absence, and a
\* rune that is neither
Horizontals == {none, horizontal_single, horizontal_double, horizontal_thick}

Verticals == {none, vertical_single, vertical_double, vertical_thick}

DoGetSingleSplitter ==
  \E west \in Horizontals \cup {"a"} : \E east \in Horizontals \cup {"a"} :
    \E north \in Verticals \cup {"a"} : \E south \in Verticals \cup {"a"} :
      Applied("getSingleSplitter", <<west, east, north, south>>, "nil",
              <<getSingleSplitter(west, east, north, south)>>)

\* the separator of the column specifications: one, two or three bars
Bars == {<<"|">>, <<"|", "|">>, <<"|", "|", "|">>}

\* tables of two columns (the separator between them bare, with blanks around
\* it, or with separators on the outer sides as well) holding a rule, two rows
\* of contents and a closing rule
RuledTables ==
  { addRule(addRows(addRule(NewTable(cs, <<>>).table, rule, <<>>).table,
                    <<<<A, A>>, <<A, A>>>>), rule, <<>>).table :
      cs \in UNION { { <<"l">> \o b \o <<"r">>,
                       <<"l", " ">> \o b \o <<" ", "r">>,
                       b \o <<"l">> \o b \o <<"r">> \o b } : b \in Bars },
      rule \in {horizontal_single, horizontal_double, horizontal_thick} }

\* tables of two columns with a separator between them, holding a row of
\* contents, a Multicolumn over both columns and, or not, a second row of contents
SpannedTexts ==
  { addRows(NewTable(<<"l">> \o b \o <<"r">>, <<>>).table,
            <<<<A, A>>, <<Multicolumn(2, <<"c">>, <<plain(<<"a", "a", "a">>)>>)>>>>
              \o (IF under THEN <<<<A, A>>>> ELSE <<>>)) :
      b \in Bars, under \in BOOLEAN }

\* Table.String of such a table
DoRender ==
  \E tab \in RuledTables \cup SpannedTexts :
    \E r \in {String(tab)} :
      Applied("String", <<tab>>, IF r.panic THEN "panic" ELSE "nil", joinSplit(r.output))

\* the strings of a sequence of strings, one after the other
RECURSIVE Concat(_)
Concat(ss) == IF ss = <<>> THEN <<>> ELSE Head(ss) \o Concat(Tail(ss))

\* column specifications of up to MaxSpec parts: a free column, a paragraph
\* letter alone, with an empty argument, with the arguments 0 and 2, and a
\* separator; and the row specifications of up to two letters
ColSpecs ==
  { Concat(parts) :
      parts \in SeqsUpTo({<<"l">>, <<"p">>, <<"p", "{", "}">>, <<"p", "{", "0", "}">>,
                          <<"p", "{", "2", "}">>, <<"|">>}, MaxSpec) }

RowSpecs == SeqsUpTo({"t", "c"}, 2)

\* NewTable(colspec) and NewTable(colspec, rowspec); the table it returns is
\* kept with the error
DoNewTable ==
  \E cs \in ColSpecs : \E rs \in RowSpecs :
    \E r \in {NewTable(cs, rs)} :
      Applied("NewTable", <<cs, rs>>, IF r.err THEN "error" ELSE "nil", <<r.table>>)

\* what git for-each-ref may print: up to MaxLen runes of the track marks and
\* newlines
GitOuts == SeqsUpTo({"=", "<", ">", NL}, MaxLen)

DoEvaluateBranchSyncStatus ==
  \E gitOut \in GitOuts :
    \E r \in {evaluateBranchSyncStatus(gitOut)} :
      Applied("evaluateBranchSyncStatus", <<gitOut>>,
              IF r.synced THEN "true" ELSE "false", r.description)

\* a table of one column that holds a Multirow over two rows with k lines of
\* content, a rule under its row and, or not, a row of content under the rule
SpannedRules ==
  { addRows(AddSingleRule(AddRow(NewTable(<<"l">>, <<>>).table,
                                 <<Multirow(2, <<"t">>, plain(linesValue(k)))>>).table,
                          <<>>).table,
            IF more THEN <<<<A>>>> ELSE <<>>) :
      k \in 1..(MaxHeight + 1), more \in BOOLEAN }

\* Table.distributeAllRows on such a table
DoDistributeAllRows ==
  \E tab \in SpannedRules :
    \E r \in {distributeAllRows(tab)} :
      Applied("distributeAllRows", <<tab>>, IF r.panic THEN "panic" ELSE "nil", <<r.table>>)

HelperNext ==
  \/ DoDistributeColumns
  \/ DoDistributeRows
  \/ DoSplitParagraph
  \/ DoContentProcess
  \/ DoMultirowProcess
  \/ DoRender
  \/ DoNewTable
  \/ DoEvaluateBranchSyncStatus
  \/ DoDistributeAllRows
  \/ DoGetSingleSplitter

HelperSpec == HelperInit /\ [][HelperNext]_vars

\* ------------------------------------------------ GetReposWithDetails

\* the repositories listRepoPaths may find
MaxRepos == 2

\* what the commands run for one path do: fs.Sub fails, git status fails, git
\* for-each-ref fails (the repo is then not synced), or both succeed and print
\* nothing to commit and a synced branch
Outcomes ==
  { [kind |-> k, status |-> <<>>, branches |-> <<>>] : k \in {"sub", "git", "ref"} }
  \cup { [kind |-> "ok", status |-> <<>>, branches |-> <<"=", NL>>] }

Root == <<"/", "r">>

AppInit == Init /\ client = "column"

Rest == UNCHANGED <<client, t, made, call, ret, ncalls, nok, plainOnly, out>>

\* listRepoPaths and make([]Repo, len(repoPaths)): the paths in the order of the
\* walk, or its error, with which GetReposWithDetails returns at once
ListRepoPaths ==
  /\ run.stage = "idle"
  /\ \E n \in 0..MaxRepos : \E env \in [1..n -> Outcomes] : \E failed \in BOOLEAN :
       run' = IF failed
              THEN [NoRun EXCEPT !.stage = "returned", !.root = Root, !.err = TRUE]
              ELSE [NoRun EXCEPT !.stage = "started", !.root = Root, !.env = env,
                                 !.paths = [i \in 1..n |-> <<<<"a">>, <<"b">>, <<"c">>>>[i]],
                                 !.repos = [i \in 1..n |-> zeroRepo],
                                 !.pc = [i \in 1..n |-> "none"]]
  /\ Rest

\* one turn of the loop: wg.Add(1) and go func(i, path)
Spawn ==
  /\ run.stage = "started" /\ run.spawned < Len(run.paths)
  /\ run' = [run EXCEPT !.spawned = @ + 1, !.wg = @ + 1, !.pc[run.spawned + 1] = "sub"]
  /\ Rest

\* goroutine i at fs.Sub: on an error it returns
Sub(i) ==
  /\ run.pc[i] = "sub"
  /\ run' = [run EXCEPT !.pc[i] = IF run.env[i].kind = "sub" THEN "exit" ELSE "sync"]
  /\ Rest

\* goroutine i from gitFetch to getSyncStatus: on an error of getSyncStatus it
\* returns
Sync(i) ==
  /\ run.pc[i] = "sync"
  /\ run' = [run EXCEPT !.pc[i] = IF getSyncStatus(run.env[i]).err THEN "exit" ELSE "write"]
  /\ Rest

\* a goroutine that stores its Repo in the slot after its own
writeNext(i) ==
  /\ run.pc[i] = "write"
  /\ run' = [run EXCEPT !.repos[(i % Len(run.paths)) + 1] = newRepo(run.root, run.paths[i], run.env[i]),
                        !.pc[i] = "exit"]
  /\ Rest

\* goroutine i at repos[i] = Repo{...}, after getLastCommitAuthor
Write(i) ==
  /\ run.pc[i] = "write"
  /\ run' = [run EXCEPT !.repos[i] = newRepo(run.root, run.paths[i], run.env[i]),
                        !.pc[i] = "exit"]
  /\ Rest

\* goroutine i leaves: the deferred wg.Done()
Done(i) ==
  /\ run.pc[i] = "exit"
  /\ run' = [run EXCEPT !.wg = @ - 1, !.pc[i] = "done"]
  /\ Rest

\* wg.Wait() after the loop, and return repos, nil
Wait ==
  /\ run.stage = "started" /\ run.spawned = Len(run.paths) /\ run.wg = 0
  /\ run' = [run EXCEPT !.stage = "returned", !.result = run.repos]
  /\ Rest

\* the output of the slice returned: the summary, the table and the lines of
\* the TSV output
Report ==
  /\ run.stage = "returned" /\ ~run.err
  /\ \E tab \in {ConstructTable(run.result)} :
       /\ ret' = IF tab.panic THEN "panic" ELSE IF tab.err THEN "error" ELSE "nil"
       /\ out' = <<ConstructSummary(run.result, run.root), tab.table,
                   ConstructTSVOutput(run.result)>>
  /\ call' = [op |-> "Construct", args |-> <<run.result>>]
  /\ run' = [run EXCEPT !.stage = "reported"]
  /\ UNCHANGED <<client, t, made, ncalls, nok, plainOnly>>

AppNext ==
  \/ ListRepoPaths
  \/ Spawn
  \/ \E i \in 1..Len(run.paths) : Sub(i) \/ Sync(i) \/ Write(i) \/ Done(i)
  \/ Wait
  \/ Report

AppSpec == AppInit /\ [][AppNext]_vars

\* ------------------------------------------------------------------ claims

\* C1: after NewTable and any calls of AddRow and of the three rules, whether
\* they returned nil or an error, every row of the grid has exactly as many
\* entries as the table has columns, a last column that only holds a separator
\* included.
C1_GridRowsSpanAllColumns ==
  \A i \in 1..Len(t.cells) : Len(t.cells[i]) = Len(t.columns)

\* a table with a separator-only last column holds a content row and a rule row,
\* and one of the calls made on it failed
C1_Witness ==
  /\ Len(t.columns) > GetNbColumns(t)
  /\ Len(t.cells) = 2
  /\ nok < ncalls
  /\ \E i \in 1..2 : t.cells[i][1].kind = "hrule"
  /\ \E i \in 1..2 : t.cells[i][1].kind = "content"


\* C2 as the specification states it: for a table built with only content rows
\* and rules, GetNbRows() equals the number of AddRow and Add*Rule calls made
\* on it.
C2_RowsEqualCallsMade ==
  (made /\ plainOnly /\ ret # "panic") => GetNbRows(t) = ncalls

\* C2: GetNbRows() equals the number of AddRow and AddSingleRule /
\* AddDoubleRule / AddThickRule calls that returned nil (rule rows are
\* counted); a call that returned an error added no row.
C2_RowsEqualCallsReturnedNil == GetNbRows(t) = nok

\* a content row and a rule row are counted, and a call that failed is not
C2_Witness ==
  /\ plainOnly
  /\ ret # "panic"
  /\ GetNbRows(t) = 2
  /\ ncalls = 3
  /\ \E i \in 1..2 : t.cells[i][1].kind = "hrule"
  /\ \E i \in 1..2 : t.cells[i][1].kind = "content"

\* a multicell stored in column jcol reaches row irow (the test of hasMulticell,
\* with no column read that the rows do not have)
reaches(tab, irow, jcol) ==
  \E i \in 0..(Len(tab.rows) - 1) :
    /\ isMulticell(tab, i, jcol)
    /\ Cell(tab, i, jcol).iinit + Cell(tab, i, jcol).nbrows > irow

\* the first column from j on that no multicell claims in the row to be appended
RECURSIVE nextFree(_, _)
nextFree(tab, j) ==
  IF j >= 0 /\ j < Len(tab.columns) /\ reaches(tab, Len(tab.rows), j)
  THEN nextFree(tab, j + 1)
  ELSE j

\* the columns a value takes
spanOf(v) == IF v.kind = "multicell" THEN v.nbcolumns ELSE 1

\* the column the k-th (from 1) of the values cells would start at in the row
\* to be appended to tab
RECURSIVE startColumn(_, _, _)
startColumn(tab, cells, k) ==
  IF k = 1 THEN nextFree(tab, 0)
  ELSE nextFree(tab, startColumn(tab, cells, k - 1) + spanOf(cells[k - 1]))

\* there are more values than GetNbColumns(), or a multicell would start at a
\* column j with j plus its column span greater than GetNbColumns()
overflows(tab, cells) ==
  \/ Len(cells) > GetNbColumns(tab)
  \/ \E k \in 1..Len(cells) :
       /\ cells[k].kind = "multicell"
       /\ startColumn(tab, cells, k) + cells[k].nbcolumns > GetNbColumns(tab)

\* C3: AddRow returns an error and appends no row whenever the number of
\* values exceeds GetNbColumns(), or a multicell value would start at a column
\* j such that j plus its column span is greater than GetNbColumns().
C3_OverflowIsAnError ==
  [][(call'.op = "AddRow" /\ made /\ overflows(t, call'.args))
       => (ret' = "error" /\ t'.cells = t.cells /\ t'.rows = t.rows)]_vars

\* C4: AddSingleRule / AddDoubleRule / AddThickRule return an error, and leave
\* the rows and the grid of the table unchanged, whenever an odd number of
\* column indices is given or some (start, end) pair has end < start.
C4_BadRangeIsAnError ==
  [][(/\ call'.op \in {"AddSingleRule", "AddDoubleRule", "AddThickRule"}
      /\ made
      /\ \/ Len(call'.args) % 2 = 1
         \/ \E k \in 1..(Len(call'.args) \div 2) :
              call'.args[2 * k] < call'.args[2 * k - 1])
       => (ret' = "error" /\ t'.cells = t.cells /\ t'.rows = t.rows)]_vars

\* C5: AddRow never aborts the process: on every table reached through calls
\* that succeeded, and for every list of values (plain values, or multicells of
\* any span counts), the call appends exactly one row and returns nil, or
\* returns an error.
C5_AddRowNeverAborts ==
  [][(call'.op = "AddRow" /\ made /\ nok = ncalls)
       => \/ ret' = "nil" /\ Len(t'.cells) = Len(t.cells) + 1
          \/ ret' = "error"]_vars

\* C6: AddSingleRule / AddDoubleRule / AddThickRule never abort the process:
\* for every list of column indices, negative ones and ones beyond the last
\* column included, the call appends one rule row or returns an error.
C6_RulesNeverAbort ==
  [][(call'.op \in {"AddSingleRule", "AddDoubleRule", "AddThickRule"} /\ made)
       => \/ ret' = "nil" /\ Len(t'.cells) = Len(t.cells) + 1
          \/ ret' = "error"]_vars

\* C7: for every table whose construction and insertion calls all returned
\* without error, String() completes and returns a string: no abort at render
\* time is reachable.
C7_RenderingCompletes ==
  (call.op = "String" /\ made /\ nok = ncalls) => ret = "nil"

\* position (r, c) lies in the rows and columns that a multicell of an earlier
\* row of tab spans
inEarlierSpan(tab, r, c) ==
  \E i \in 0..(r - 1) : \E j \in 0..(Len(tab.cells[i + 1]) - 1) :
    /\ isMulticell(tab, i, j)
    /\ Cell(tab, i, j).iinit <= r
    /\ r < Cell(tab, i, j).iinit + Cell(tab, i, j).nbrows
    /\ Cell(tab, i, j).jinit <= c
    /\ c < Cell(tab, i, j).jinit + Cell(tab, i, j).nbcolumns

\* C8: when AddRow appends row r, no value and no multicell of the caller is
\* placed at a position (r, c) inside the row-and-column span of a multicell
\* inserted in an earlier row: every column of such a span is skipped.
C8_NothingPlacedInsideASpan ==
  [][(call'.op = "AddRow" /\ ret' = "nil")
       => \A k \in 1..Len(AddRow(t, call'.args).at) :
            ~inEarlierSpan(t, Len(t.rows), AddRow(t, call'.args).at[k])]_vars

\* the largest of a finite non-empty set of integers
SetMax(S) == CHOOSE x \in S : \A y \in S : y <= x

\* the printable-rune lengths of the lines of the contents stored in column j
\* (from 0) of tab
lineLengths(tab, j) ==
  UNION { { countPrintableRuneInString(line) :
              line \in { newlineSplit(Cell(tab, i, j).str, <<>>)[n] :
                           n \in 1..Len(newlineSplit(Cell(tab, i, j).str, <<>>)) } } :
          i \in { r \in 0..(Len(tab.cells) - 1) : Cell(tab, r, j).kind = "content" } }

\* C9: across AddRow calls with plain values no column width ever decreases;
\* after each call a free column (l, c, r) is as wide as the longest line, in
\* printable runes, of the values inserted in it so far, and a paragraph
\* column (p, L, C, R with argument N) that received a value is at least N wide.
C9_WidthsFollowPlainValues ==
  /\ [][(call'.op = "AddRow" /\ plainOnly')
          => /\ \A j \in 1..Len(t.columns) : t'.columns[j].width >= t.columns[j].width
             /\ ret' = "nil" =>
                  \A k \in 1..Len(call'.args) :
                    isParagraph(t.columns[k]) => t'.columns[k].width >= t.columns[k].hformat.arg]_vars
  /\ [](plainOnly =>
          \A j \in 1..GetNbColumns(t) :
            ~isParagraph(t.columns[j]) =>
               t.columns[j].width = SetMax({0} \cup lineLengths(t, j - 1)))

\* two rows of plain values are in a table with a free and a paragraph column;
\* the free column holds a coloured line and is as wide as its longest line
C9_Witness ==
  /\ plainOnly
  /\ call.op = "AddRow"
  /\ ret = "nil"
  /\ Len(t.cells) = 2
  /\ Len(t.columns) = 3
  /\ isParagraph(t.columns[2])
  /\ t.columns[1].width = 3
  /\ t.columns[2].width = 2
  /\ \E i \in 1..2 : ESC \in { t.cells[i][1].str[n] : n \in 1..Len(t.cells[i][1].str) }

\* the physical lines value v takes at column j of tab: for a multicell the
\* lines of its table divided by the rows it spans
linesOfValue(v, tab, j) ==
  IF v.kind = "multicell"
  THEN GoDiv(Len(joinSplit(String(placeMulticell(v, tab, j).table).output)), v.nbrows)
  ELSE IF isParagraph(Col(tab, j))
  THEN Len(splitParagraph(v.str, Col(tab, j).hformat.arg).lines)
  ELSE Len(newlineSplit(v.str, <<>>))

\* the physical lines the cell stored at (i, j) of tab takes
linesOfCell(tab, i, j) ==
  IF Cell(tab, i, j).kind = "multicell"
  THEN Len(joinSplit(String(Cell(tab, i, j).table).output))
  ELSE linesOfValue(Cell(tab, i, j), tab, j)

noDecrease(before, after) ==
  /\ Len(after.columns) = Len(before.columns)
  /\ Len(after.rows) = Len(before.rows)
  /\ \A j \in 1..Len(before.columns) : after.columns[j].width >= before.columns[j].width
  /\ \A i \in 1..Len(before.rows) : after.rows[i].height >= before.rows[i].height
  /\ \A i \in 1..Len(before.cells) : \A j \in 1..Len(before.cells[i]) :
       before.cells[i][j].kind = "multicell" =>
         /\ after.cells[i][j].kind = "multicell"
         /\ \A k \in 1..Len(before.cells[i][j].table.columns) :
              after.cells[i][j].table.columns[k].width >= before.cells[i][j].table.columns[k].width
         /\ \A k \in 1..Len(before.cells[i][j].table.rows) :
              after.cells[i][j].table.rows[k].height >= before.cells[i][j].table.rows[k].height

\* C11: distributeAllColumns and distributeAllRows, as a render runs them (the
\* rows after the columns), never leave a column width or a row height of the
\* table or of the table of one of its multicells below its value before the pass.
C11_DistributionNeverShrinks ==
  ret # "panic" =>
    /\ noDecrease(t, distributeAllColumns(t).table)
    /\ noDecrease(t, distributeAllRows(t).table)
    /\ noDecrease(distributeAllColumns(t).table,
                  distributeAllRows(distributeAllColumns(t).table).table)

\* both passes complete on a table with a multicell: the first widens a column
\* of the table, and the table of the multicell grows too
C11_Witness ==
  /\ ret = "nil"
  /\ ~distributeAllColumns(t).panic
  /\ ~distributeAllRows(distributeAllColumns(t).table).panic
  /\ \E j \in 1..Len(t.columns) :
       distributeAllColumns(t).table.columns[j].width > t.columns[j].width
  /\ \E i \in 1..Len(t.cells) : \E j \in 1..Len(t.cells[i]) :
       /\ t.cells[i][j].kind = "multicell"
       /\ distributeAllColumns(t).table.cells[i][j].table.columns[1].width
            > t.cells[i][j].table.columns[1].width

\* C12: distributeColumns(n, columns) and distributeRows(n, rows), for n >= 0
\* and k >= 1 entries, return normally having added n div k to every entry and
\* one more to the first n mod k, n in total, and changed nothing else.
C12_DistributionAddsExactlyN ==
  (call.op \in {"distributeColumns", "distributeRows"}
     /\ call.args[1] >= 0 /\ Len(call.args[2]) >= 1)
  => LET n == call.args[1]
         before == call.args[2]
         k == Len(before)
         size(e) == IF call.op = "distributeColumns" THEN e.width ELSE e.height
         resized(e, v) == IF call.op = "distributeColumns"
                          THEN [e EXCEPT !.width = v] ELSE [e EXCEPT !.height = v]
     IN /\ ret = "nil"
        /\ Len(out) = k
        /\ \A idx \in 1..k :
             out[idx] = resized(before[idx],
                          size(before[idx]) + (n \div k) + (IF idx <= n % k THEN 1 ELSE 0))
        /\ \E total \in {n} :
             LET RECURSIVE sum(_, _)
                 sum(s, i) == IF i = 0 THEN 0 ELSE size(s[i]) + sum(s, i - 1)
             IN sum(out, k) - sum(before, k) = total

\* 4 is distributed over three rows of unequal heights: one more for the first
C12_Witness ==
  /\ call.op = "distributeRows"
  /\ call.args[1] = 4
  /\ Len(call.args[2]) = 3
  /\ call.args[2][1].height = 2
  /\ call.args[2][2].height = 0
  /\ ret = "nil"
  /\ out[1].height = 4
  /\ out[2].height = 1

RECURSIVE trailingRun(_)
trailingRun(s) ==
  IF s = <<>> \/ IsSpace(s[Len(s)]) THEN 0 ELSE 1 + trailingRun(SubSeqTo(s, Len(s) - 1))

RECURSIVE leadingRun(_)
leadingRun(s) == IF s = <<>> \/ IsSpace(Head(s)) THEN 0 ELSE 1 + leadingRun(Tail(s))

\* the places where splitParagraph(str, width) ends a line: the line, what was
\* left of the string there, and the runes of the word the place is in (carried
\* counts the runes of that word that earlier lines took)
RECURSIVE lineEnds(_, _, _)
lineEnds(str, width, carried) ==
  IF str = <<>> THEN {}
  ELSE LET sc == splitScan(str, width, 0, 0, 0, 0)
           n == ByteLen(str)
           line == ByteSlice(str, 0, sc.end)
           left == ByteSlice(str, sc.end, n)
           before == trailingRun(line) + (IF trailingRun(line) = Len(line) THEN carried ELSE 0)
       IN IF sc.panic \/ sc.end > n \/ sc.end + sc.nxt > n THEN {}
          ELSE {[line |-> line, left |-> left, word |-> before + leadingRun(left)]}
               \cup lineEnds(ByteSlice(str, sc.end + sc.nxt, n), width,
                             IF sc.nxt = 0 THEN before ELSE 0)

\* C14: splitParagraph(str, width) never ends a line inside a word (a maximal
\* run of runes that are no space) unless the word has more than width runes,
\* whatever the input, text with leading or consecutive spaces included.
C14_NeverSplitsAShortWord ==
  (call.op = "splitParagraph" /\ ret = "nil")
  => \A e \in lineEnds(call.args[1], call.args[2], 0) :
       (trailingRun(e.line) > 0 /\ leadingRun(e.left) > 0) => e.word > call.args[2]

\* the words of s: its maximal runs of runes that are no space
RECURSIVE words(_, _)
words(s, cur) ==
  IF s = <<>> THEN IF cur = <<>> THEN {} ELSE {cur}
  ELSE IF IsSpace(Head(s)) THEN (IF cur = <<>> THEN {} ELSE {cur}) \cup words(Tail(s), <<>>)
  ELSE words(Tail(s), Append(cur, Head(s)))

ownLines(str, col) ==
  IF isParagraph(col) THEN splitParagraph(str, col.hformat.arg).lines
  ELSE newlineSplit(str, <<>>)

\* own within h lines: the blank lines after it for "t", before it for "b", and
\* for "c" half before and half after, the odd one after
padded(own, h, alignment) ==
  LET d == h - Len(own)
      before == CASE alignment = "t" -> 0 [] alignment = "b" -> d [] alignment = "c" -> d \div 2
  IN IF d <= 0 THEN own
     ELSE [k \in 1..before |-> horizontal_empty] \o own
          \o [k \in 1..(d - before) |-> horizontal_empty]

\* the physical lines of rows [iinit, iinit + n) of tab, a rule taking one
spannedHeight(tab, iinit, n) ==
  LET RECURSIVE sum(_)
      sum(i) == IF i >= iinit + n THEN 0
                ELSE (IF Cell(tab, i, 0).kind = "hrule" THEN 1 ELSE Row(tab, i).height)
                     + sum(i + 1)
  IN sum(iinit)

\* C16: when a row is d lines taller than a content of it, content.Process
\* returns as many lines as the row is high, the lines of the content together:
\* the d blank lines come after them for a top alignment, before them for a
\* bottom alignment, and floor(d/2) before and ceil(d/2) after for a centred
\* one.  The content of a Multirow is aligned the same way within the height of
\* all the rows it spans.
C16_PaddingFollowsAlignment ==
  /\ (call.op = "content.Process")
       => LET tab == call.args[1]
              own == ownLines(Cell(tab, 0, 0).str, Col(tab, 0))
          IN /\ ret = "nil"
             /\ out = padded(own, Row(tab, 0).height, Col(tab, 0).vformat.alignment)
             /\ Len(out) = Row(tab, 0).height
  /\ (call.op = "Multirow.Process")
       => LET host == call.args[1]
              m == Cell(host, 0, 0)
              own == ownLines(Cell(m.table, 0, 0).str, Col(m.table, 0))
              h == spannedHeight(host, m.iinit, m.nbrows)
          IN /\ ret = "nil"
             /\ m.mtype = multirow_t
             /\ m.nbrows = Len(host.rows)
             /\ out = padded(own, h, m.rspec[1])
             /\ Len(out) = IF h > Len(own) THEN h ELSE Len(own)

\* a centred content of one line in a row of four: one blank line before it and
\* two after it
C16_Witness ==
  /\ call.op = "content.Process"
  /\ ret = "nil"
  /\ Col(call.args[1], 0).vformat.alignment = "c"
  /\ Row(call.args[1], 0).height = 4
  /\ out = <<horizontal_empty, <<"a">>, horizontal_empty, horizontal_empty>>

\* the box-drawing runes with an arm to the west
westArm ==
  { horizontal_single, horizontal_thick, "u2510", "u2511", "u2512", "u2513", "u2518", "u2519",
    "u251a", "u251b", "u2524", "u2525", "u2526", "u2527", "u2528", "u2529",
    "u252a", "u252b", "u252c", "u252d", "u252f", "u2530", "u2531", "u2533",
    "u2534", "u2535", "u2536", "u2537", "u2538", "u2539", "u253a", "u253b",
    "u253c", "u253d", "u253e", "u253f", "u2540", "u2541", "u2542", "u2543",
    "u2544", "u2545", "u2546", "u2547", "u2548", "u2549", "u254a", "u254b",
    horizontal_double, "u2555", "u2556", "u2557", "u255b", "u255c", "u255d", "u2561",
    "u2562", "u2563", "u2564", "u2565", "u2566", "u2567", "u2568", "u2569",
    "u256a", "u256b", "u256c" }

\* the box-drawing runes with an arm to the east
eastArm ==
  { horizontal_single, horizontal_thick, "u250c", "u250d", "u250e", "u250f", "u2514", "u2515",
    "u2516", "u2517", "u251c", "u251d", "u251e", "u251f", "u2520", "u2521",
    "u2522", "u2523", "u252c", "u252d", "u252f", "u2530", "u2531", "u2533",
    "u2534", "u2535", "u2536", "u2537", "u2538", "u2539", "u253a", "u253b",
    "u253c", "u253d", "u253e", "u253f", "u2540", "u2541", "u2542", "u2543",
    "u2544", "u2545", "u2546", "u2547", "u2548", "u2549", "u254a", "u254b",
    horizontal_double, "u2552", "u2553", "u2554", "u2558", "u2559", "u255a", "u255e",
    "u255f", "u2560", "u2564", "u2565", "u2566", "u2567", "u2568", "u2569",
    "u256a", "u256b", "u256c" }

\* the box-drawing runes with an arm to the north
northArm ==
  { vertical_single, vertical_thick, "u2514", "u2515", "u2516", "u2517", "u2518", "u2519",
    "u251a", "u251b", "u251c", "u251d", "u251e", "u251f", "u2520", "u2521",
    "u2522", "u2523", "u2524", "u2525", "u2526", "u2527", "u2528", "u2529",
    "u252a", "u252b", "u2534", "u2535", "u2536", "u2537", "u2538", "u2539",
    "u253a", "u253b", "u253c", "u253d", "u253e", "u253f", "u2540", "u2541",
    "u2542", "u2543", "u2544", "u2545", "u2546", "u2547", "u2548", "u2549",
    "u254a", "u254b", vertical_double, "u2558", "u2559", "u255a", "u255b", "u255c",
    "u255d", "u255e", "u255f", "u2560", "u2561", "u2562", "u2563", "u2567",
    "u2568", "u2569", "u256a", "u256b", "u256c" }

\* the box-drawing runes with an arm to the south
southArm ==
  { vertical_single, vertical_thick, "u250c", "u250d", "u250e", "u250f", "u2510", "u2511",
    "u2512", "u2513", "u251c", "u251d", "u251e", "u251f", "u2520", "u2521",
    "u2522", "u2523", "u2524", "u2525", "u2526", "u2527", "u2528", "u2529",
    "u252a", "u252b", "u252c", "u252d", "u252f", "u2530", "u2531", "u2533",
    "u253c", "u253d", "u253e", "u253f", "u2540", "u2541", "u2542", "u2543",
    "u2544", "u2545", "u2546", "u2547", "u2548", "u2549", "u254a", "u254b",
    vertical_double, "u2552", "u2553", "u2554", "u2555", "u2556", "u2557", "u255e",
    "u255f", "u2560", "u2561", "u2562", "u2563", "u2564", "u2565", "u2566",
    "u256a", "u256b", "u256c" }

\* C17: for west and east among none and the three rules, and north and south
\* among none and the three separators, when getSingleSplitter returns a rune
\* other than none that rune has an arm to a direction if and only if the rune
\* given for that direction is not none.
C17_ArmsMatchTheNeighbours ==
  (call.op = "getSingleSplitter"
     /\ call.args[1] \in Horizontals /\ call.args[2] \in Horizontals
     /\ call.args[3] \in Verticals /\ call.args[4] \in Verticals
     /\ out[1] # none)
  => /\ (out[1] \in westArm) <=> (call.args[1] # none)
     /\ (out[1] \in eastArm) <=> (call.args[2] # none)
     /\ (out[1] \in northArm) <=> (call.args[3] # none)
     /\ (out[1] \in southArm) <=> (call.args[4] # none)

\* NewTable("l | r") with a thick rule, two rows of contents and a closing thick
\* rule
thickRuledTable ==
  addRule(addRows(addRule(NewTable(<<"l", " ", "|", " ", "r">>, <<>>).table,
                          horizontal_thick, <<>>).table,
                  <<<<A, A>>, <<A, A>>>>), horizontal_thick, <<>>).table

\* U+250F, U+2513, U+2517, U+251B, U+2533, U+253B, U+2523, U+252B, U+254B: the
\* corners, tees and cross whose arms are all heavy
heavyJunctions ==
  {"u250f", "u2513", "u2517", "u251b", "u2533", "u253b", "u2523", "u252b", "u254b"}

\* C18: in the rendering of NewTable("l | r") with a thick rule, two rows of
\* contents and a closing thick rule, the rune of each rule line in the column
\* where the lines of contents hold the vertical separator is a heavy junction
\* glyph.
C18_ThickRuleMeetsSeparatorHeavily ==
  (call.op = "String" /\ call.args[1] = thickRuledTable /\ ret = "nil")
  => /\ Len(out) = 4
     /\ \A i \in {1, 4} : \A j \in 1..Len(out[2]) :
          out[2][j] = vertical_single
            => j <= Len(out[i]) /\ out[i][j] \in heavyJunctions

\* the letter at position i of the column specification cs is followed by an
\* argument {N} of digits with N > 0
hasArgument(cs, i) ==
  \E k \in (i + 3)..Len(cs) :
    /\ cs[i + 1] = "{" /\ cs[k] = "}"
    /\ \A m \in (i + 2)..(k - 1) : cs[m] \in Digits
    /\ \E m \in (i + 2)..(k - 1) : cs[m] # "0"

\* C19: NewTable returns an error for every column specification that holds,
\* anywhere, a bounded style letter (p, L, C or R) with no argument {N} or with
\* an argument N <= 0.
C19_BoundedLetterNeedsItsArgument ==
  (call.op = "NewTable" /\ Len(out) = 1
     /\ \E i \in 1..Len(call.args[1]) :
          call.args[1][i] \in ParagraphLetters /\ ~hasArgument(call.args[1], i))
  => ret = "error"

\* C20: NewTable returns an error whenever the row specification holds more
\* alignment letters than the column specification defines data columns, the
\* columns GetNbColumns reports for that column specification.
C20_RowLettersWithinDataColumns ==
  (call.op = "NewTable" /\ Len(out) = 1
     /\ ~NewTable(call.args[1], <<>>).err
     /\ Cardinality({i \in 1..Len(call.args[2]) : call.args[2][i] \in {"t", "b", "c"}})
          > GetNbColumns(NewTable(call.args[1], <<>>).table))
  => ret = "error"

\* C22: evaluateBranchSyncStatus answers true exactly when every line of the
\* tracking output, one closing newline taken off, is "=".
C22_SyncedIffEveryLineIsEqual ==
  call.op = "evaluateBranchSyncStatus"
  => ((ret = "true")
        <=> \A k \in 1..Len(newlineSplit(TrimNewline(call.args[1]), <<>>)) :
              newlineSplit(TrimNewline(call.args[1]), <<>>)[k] = <<"=">>)

\* C21: the number of repos the summary reports for the slice that
\* GetReposWithDetails returned equals the number of rows of repos in the
\* table (the rows of contents under the row of the titles and its two rules)
\* and the number of lines of the TSV output under its header.
C21_SummaryCountsTheRowsEmitted ==
  call.op = "Construct"
  => /\ out[1].countRepos
          = Cardinality({i \in 4..GetNbRows(out[2]) : out[2].cells[i][1].kind = "content"})
     /\ out[1].countRepos = Len(newlineSplit(out[3], <<>>)) - 2

\* position (r, c) lies in the rows and columns that a multicell stored at
\* another position of tab spans
inSpanOfAnother(tab, r, c) ==
  \E i \in 0..(Len(tab.cells) - 1) : \E j \in 0..(Len(tab.cells[i + 1]) - 1) :
    /\ isMulticell(tab, i, j)
    /\ <<i, j>> # <<r, c>>
    /\ i <= r /\ r < i + Cell(tab, i, j).nbrows
    /\ j <= c /\ c < j + Cell(tab, i, j).nbcolumns

\* C23: in one rendering of the table no grid position is processed twice, and
\* no position that lies inside the span of a multicell, its origin apart, is
\* processed at all.
C23_SpannedPositionsAreNotProcessed ==
  [][(call'.op = "String" /\ ret' = "nil")
       => \A n \in 1..Len(String(t).processed) :
            /\ \A k \in 1..(n - 1) : String(t).processed[k] # String(t).processed[n]
            /\ ~inSpanOfAnother(t, String(t).processed[n][1], String(t).processed[n][2])]_vars

\* the i-th row of tab is a horizontal rule (rules span all columns, so that its
\* first cell tells)
isRuleRow(tab, i) == Len(tab.cells[i + 1]) > 0 /\ Cell(tab, i, 0).kind = "hrule"

\* C24: a row that is a horizontal rule has the height 1 when it is appended,
\* and distributeAllRows leaves it at 1 whatever multicell spans it.
C24_RuleRowsKeepHeightOne ==
  (call.op = "distributeAllRows" /\ ret = "nil")
  => \A i \in 0..(Len(call.args[1].rows) - 1) :
       isRuleRow(call.args[1], i)
       => Row(call.args[1], i).height = 1 /\ Row(out[1], i).height = 1

\* the string part occurs in the string s
Contains(s, part) == Index(s, part) # -1

\* C25: when the only row of the table holds a multicell that ends in a vertical
\* separator and, right after it, a multicell that starts with none, the line
\* rendered for the row holds that separator followed by the value of the
\* second multicell.
C25_SeparatorPrefixKeepsTheValues ==
  (call.op = "String" /\ ret = "nil" /\ Len(t.rows) = 1
     /\ isMulticell(t, 0, 0) /\ Cell(t, 0, 0).clastsep # <<>>
     /\ isMulticell(t, 0, Cell(t, 0, 0).nbcolumns)
     /\ Col(Cell(t, 0, Cell(t, 0, 0).nbcolumns).table, 0).sep = <<>>)
  => \E n \in 1..Len(out) :
       Contains(out[n],
                Cell(t, 0, 0).clastsep
                  \o Cell(Cell(t, 0, Cell(t, 0, 0).nbcolumns).table, 0, 0).str)

\* the multicell stored at (i, j) of tab is as wide as the columns of tab it spans
spanMatches(tab, i, j) ==
  getColumnsWidth(tab, Cell(tab, i, j).jinit, Cell(tab, i, j).nbcolumns).v
    = getColumnsWidth(Cell(tab, i, j).table, 0, Len(Cell(tab, i, j).table.columns)).v

\* C26: whatever rows and multicells the table holds, when distributeAllColumns
\* has run on it the columns that each multicell spans take together the width
\* of the table of the multicell.
C26_SpannedColumnsMatchTheMulticell ==
  \E d \in {distributeAllColumns(t)} :
    ~d.panic
    => \A i \in 0..(Len(d.table.cells) - 1) : \A j \in 0..(Len(d.table.cells[i + 1]) - 1) :
         isMulticell(d.table, i, j) => spanMatches(d.table, i, j)

\* two rows of the table hold a multicell each, the two overlap in a column and
\* one of them had to grow to the width of the columns
C26_Witness ==
  /\ call.op = "String" /\ ret = "nil"
  /\ \E i \in 0..(Len(t.cells) - 1) : \E k \in 0..(Len(t.cells) - 1) :
       /\ i # k
       /\ isMulticell(t, i, 0) /\ Cell(t, i, 0).nbcolumns = 2
       /\ isMulticell(t, k, 1)
       /\ Cell(t, k, 1).table.columns[1].width > 1
       /\ spanMatches(t, i, 0) /\ spanMatches(t, k, 1)

\* C27: an AddRow that returns an error leaves the table as it was: its rows,
\* its grid of cells and the width of every column.
C27_FailedAddRowLeavesTheTable ==
  [][(call'.op = "AddRow" /\ ret' = "error")
       => /\ t'.rows = t.rows
          /\ t'.cells = t.cells
          /\ \A j \in 1..Len(t.columns) : t'.columns[j].width = t.columns[j].width]_vars

\* the runes of s that are no white space, in their order
nonSpace(s) == SelectSeq(s, LAMBDA r : ~IsSpace(r))

\* C28: the lines splitParagraph returns hold, one after the other, every rune
\* of the string that is no white space, once and in the order of the string,
\* whatever bytes the runes take.
C28_EveryRuneKeptOnce ==
  (call.op = "splitParagraph" /\ ret = "nil")
  => nonSpace(Concat(out)) = nonSpace(call.args[1])

\* C29: addSplitters leaves every rune of the text of a cell as it was drawn:
\* the runes it replaces are those of separators and of rules.
C29_TextIsNeverReplaced ==
  (call.op = "String" /\ ret = "nil" /\ Len(call.args) = 1)
  => \E r \in {String(call.args[1])} :
       \A n \in 1..Len(r.drawn) : \A k \in 1..Len(r.drawn[n]) :
         r.drawn[n][k] = "a" => r.output[n][k] = "a"

\* what the slot of path i holds once goroutine i is over, whenever it ran: the
\* zero Repo if fs.Sub or getSyncStatus failed, the Repo of the path otherwise
settled(i) ==
  IF run.env[i].kind = "sub" \/ getSyncStatus(run.env[i]).err
  THEN zeroRepo
  ELSE newRepo(run.root, run.paths[i], run.env[i])

\* C30: in GetReposWithDetails, whatever the interleaving of the goroutines, a
\* step changes a slot of the slice only if it is the store of the goroutine of
\* that slot; the function returns only when every goroutine is over; and the
\* slice returned has one slot per path found, in the order of the paths, each
\* holding what its own path gives, so that the schedule does not show in it.
C30_EachGoroutineFillsItsSlot ==
  /\ [][\A i \in 1..Len(run.repos) :
          (Len(run'.repos) = Len(run.repos) /\ run'.repos[i] # run.repos[i])
          => (run.pc[i] = "write" /\ run'.pc[i] = "exit")]_vars
  /\ [](run.stage \in {"returned", "reported"} /\ ~run.err
        => /\ \A i \in 1..Len(run.paths) : run.pc[i] = "done"
           /\ run.wg = 0
           /\ Len(run.result) = Len(run.paths)
           /\ \A i \in 1..Len(run.paths) : run.result[i] = settled(i))

\* two paths were found, the goroutine of the first left without a Repo and the
\* one of the second stored its Repo, and the function returned
C30_Witness ==
  /\ run.stage = "returned" /\ ~run.err
  /\ Len(run.paths) = 2
  /\ run.result[1] = zeroRepo
  /\ run.result[2] # zeroRepo
  /\ run.result[2].Path = run.paths[2]
====
